---------------------------- MODULE Spec2Model ----------------------------
(***************************************************************************)
(* xhm99: the HFE <-> sector image codec of xdt99 (src/xhm99.py).          *)
(*                                                                         *)
(* Bytes objects and lists of ints are sequences of integers 0..255.       *)
(* Python indices are 0-based, TLA+ sequences 1-based: At and Slice do the *)
(* translation, and Slice clamps its end as Python's s[a:b] does.          *)
(* The outcome of a call is a record [err, val]: err = "" and val the      *)
(* returned value, or err the exception that left the call and val = <<>>. *)
(***************************************************************************)
EXTENDS Integers, Sequences, FiniteSets, TLC

\* ---------------------------------------------------------------- helpers

Min(a, b) == IF a < b THEN a ELSE b

\* list(f) for a function f on 1..n: the same sequence, held as a tuple (a
\* function constructor alone is evaluated again at every application)
List(f) == f \o <<>>

\* s[i] for a 0-based index inside the sequence
At(s, i) == s[i + 1]

\* s[a:b] with 0 <= a: the end is clamped, an empty range gives <<>>
Slice(s, a, b) == SubSeq(s, a + 1, Min(b, Len(s)))

\* x * n for a list or bytes x
Rep(x, n) ==
  IF Len(x) = 1 THEN List([i \in 1..n |-> x[1]])
  ELSE List([i \in 1..(n * Len(x)) |-> x[((i - 1) % Len(x)) + 1]])

\* a left fold of Step over the indices lo..hi-1 in ascending order, as a for
\* loop runs; the range is split in halves, and the first half evaluated before
\* the second starts, only to keep the evaluation shallow
RECURSIVE Loop(_, _, _, _)
Loop(Step(_, _), acc, lo, hi) ==
  IF hi <= lo THEN acc
  ELSE IF hi = lo + 1 THEN Step(acc, lo)
  ELSE IF hi = lo + 2 THEN Step(Step(acc, lo), lo + 1)
  ELSE IF hi = lo + 3 THEN Step(Step(Step(acc, lo), lo + 1), lo + 2)
  ELSE IF hi = lo + 4 THEN Step(Step(Step(Step(acc, lo), lo + 1), lo + 2), lo + 3)
  ELSE LET mid == (lo + hi) \div 2
           left == Loop(Step, acc, lo, mid)
       IN  IF {left} # {} THEN Loop(Step, left, mid, hi) ELSE acc

\* the concatenation of the sequences f[1], ..., f[n]
RECURSIVE Concat(_, _, _)
Concat(f, lo, hi) ==
  IF hi < lo THEN <<>>
  ELSE IF hi = lo THEN f[lo]
  ELSE LET mid == (lo + hi) \div 2
       IN  Concat(f, lo, mid) \o Concat(f, mid + 1, hi)

\* ------------------------------------------------------- bit operations

\* XorByte[x + 1][y + 1] = x ^ y on bytes
XorByte ==
  List([x1 \in 1..256 |-> List([y1 \in 1..256 |->
     LET x == x1 - 1
         y == y1 - 1
     IN  ((x + y) % 2)
         + 2 * (((x \div 2) + (y \div 2)) % 2)
         + 4 * (((x \div 4) + (y \div 4)) % 2)
         + 8 * (((x \div 8) + (y \div 8)) % 2)
         + 16 * (((x \div 16) + (y \div 16)) % 2)
         + 32 * (((x \div 32) + (y \div 32)) % 2)
         + 64 * (((x \div 64) + (y \div 64)) % 2)
         + 128 * (((x \div 128) + (y \div 128)) % 2)])])

\* x ^ y on non-negative integers
RECURSIVE Xor(_, _)
Xor(x, y) ==
  IF x < 256 /\ y < 256 THEN XorByte[x + 1][y + 1]
  ELSE XorByte[(x % 256) + 1][(y % 256) + 1] + 256 * Xor(x \div 256, y \div 256)

\* x & (1 << k) != 0
Bit(x, k) == (x \div (2 ^ k)) % 2 = 1

\* x & 0xfe on a byte
ClearBit0(x) == x - (x % 2)

\* ---------------------------------------------------------------- SDFormat

SD_SECTORS == 9
SD_TRACK_LEN == 17 + 9 * 334 + 113

SD_LEADIN == <<170, 168, 168, 34>> \o Rep(<<170>>, 4 * 16)
SD_LV_LEADIN == 17
SD_LEADOUT == Rep(<<170>>, 4 * 77) \o <<170, 80>> \o Rep(<<85>>, 2 + 4 * 35)
SD_LV_LEADOUT == 113

SD_ADDRESS_MARK == <<170, 136, 168, 42>>
SD_V_ADDRESS_MARK == <<254>>
SD_LV_ADDRESS_MARK == 1
SD_DATA_MARK == <<170, 136, 40, 170>>
SD_V_DATA_MARK == <<251>>
SD_LV_DATA_MARK == 1

SD_PREGAP == Rep(<<34>>, 4 * 6)
SD_LV_PREGAP == 6
SD_GAP1 == Rep(<<170>>, 4 * 11) \o Rep(<<34>>, 4 * 6)
SD_LV_GAP1 == 17
SD_GAP2 == Rep(<<170>>, 4 * 45)
SD_LV_GAP2 == 45

SD_SECTOR_INTERLEAVE ==
  <<0, 7, 5, 3, 1, 8, 6, 4, 2,
    6, 4, 2, 0, 7, 5, 3, 1, 8,
    3, 1, 8, 6, 4, 2, 0, 7, 5>>
SD_SECTOR_INTERLEAVE_WTF ==
  <<4, 2, 0, 7, 5, 3, 1, 8, 6,
    1, 8, 6, 4, 2, 0, 7, 5, 3,
    7, 5, 3, 1, 8, 6, 4, 2, 0>>

FM_CODES ==
  <<
    <<34, 34, 34, 34>>, <<34, 34, 34, 162>>, <<34, 34, 34, 42>>, <<34, 34, 34, 170>>,
    <<34, 34, 162, 34>>, <<34, 34, 162, 162>>, <<34, 34, 162, 42>>, <<34, 34, 162, 170>>,
    <<34, 34, 42, 34>>, <<34, 34, 42, 162>>, <<34, 34, 42, 42>>, <<34, 34, 42, 170>>,
    <<34, 34, 170, 34>>, <<34, 34, 170, 162>>, <<34, 34, 170, 42>>, <<34, 34, 170, 170>>,
    <<34, 162, 34, 34>>, <<34, 162, 34, 162>>, <<34, 162, 34, 42>>, <<34, 162, 34, 170>>,
    <<34, 162, 162, 34>>, <<34, 162, 162, 162>>, <<34, 162, 162, 42>>, <<34, 162, 162, 170>>,
    <<34, 162, 42, 34>>, <<34, 162, 42, 162>>, <<34, 162, 42, 42>>, <<34, 162, 42, 170>>,
    <<34, 162, 170, 34>>, <<34, 162, 170, 162>>, <<34, 162, 170, 42>>, <<34, 162, 170, 170>>,
    <<34, 42, 34, 34>>, <<34, 42, 34, 162>>, <<34, 42, 34, 42>>, <<34, 42, 34, 170>>,
    <<34, 42, 162, 34>>, <<34, 42, 162, 162>>, <<34, 42, 162, 42>>, <<34, 42, 162, 170>>,
    <<34, 42, 42, 34>>, <<34, 42, 42, 162>>, <<34, 42, 42, 42>>, <<34, 42, 42, 170>>,
    <<34, 42, 170, 34>>, <<34, 42, 170, 162>>, <<34, 42, 170, 42>>, <<34, 42, 170, 170>>,
    <<34, 170, 34, 34>>, <<34, 170, 34, 162>>, <<34, 170, 34, 42>>, <<34, 170, 34, 170>>,
    <<34, 170, 162, 34>>, <<34, 170, 162, 162>>, <<34, 170, 162, 42>>, <<34, 170, 162, 170>>,
    <<34, 170, 42, 34>>, <<34, 170, 42, 162>>, <<34, 170, 42, 42>>, <<34, 170, 42, 170>>,
    <<34, 170, 170, 34>>, <<34, 170, 170, 162>>, <<34, 170, 170, 42>>, <<34, 170, 170, 170>>,
    <<162, 34, 34, 34>>, <<162, 34, 34, 162>>, <<162, 34, 34, 42>>, <<162, 34, 34, 170>>,
    <<162, 34, 162, 34>>, <<162, 34, 162, 162>>, <<162, 34, 162, 42>>, <<162, 34, 162, 170>>,
    <<162, 34, 42, 34>>, <<162, 34, 42, 162>>, <<162, 34, 42, 42>>, <<162, 34, 42, 170>>,
    <<162, 34, 170, 34>>, <<162, 34, 170, 162>>, <<162, 34, 170, 42>>, <<162, 34, 170, 170>>,
    <<162, 162, 34, 34>>, <<162, 162, 34, 162>>, <<162, 162, 34, 42>>, <<162, 162, 34, 170>>,
    <<162, 162, 162, 34>>, <<162, 162, 162, 162>>, <<162, 162, 162, 42>>, <<162, 162, 162, 170>>,
    <<162, 162, 42, 34>>, <<162, 162, 42, 162>>, <<162, 162, 42, 42>>, <<162, 162, 42, 170>>,
    <<162, 162, 170, 34>>, <<162, 162, 170, 162>>, <<162, 162, 170, 42>>, <<162, 162, 170, 170>>,
    <<162, 42, 34, 34>>, <<162, 42, 34, 162>>, <<162, 42, 34, 42>>, <<162, 42, 34, 170>>,
    <<162, 42, 162, 34>>, <<162, 42, 162, 162>>, <<162, 42, 162, 42>>, <<162, 42, 162, 170>>,
    <<162, 42, 42, 34>>, <<162, 42, 42, 162>>, <<162, 42, 42, 42>>, <<162, 42, 42, 170>>,
    <<162, 42, 170, 34>>, <<162, 42, 170, 162>>, <<162, 42, 170, 42>>, <<162, 42, 170, 170>>,
    <<162, 170, 34, 34>>, <<162, 170, 34, 162>>, <<162, 170, 34, 42>>, <<162, 170, 34, 170>>,
    <<162, 170, 162, 34>>, <<162, 170, 162, 162>>, <<162, 170, 162, 42>>, <<162, 170, 162, 170>>,
    <<162, 170, 42, 34>>, <<162, 170, 42, 162>>, <<162, 170, 42, 42>>, <<162, 170, 42, 170>>,
    <<162, 170, 170, 34>>, <<162, 170, 170, 162>>, <<162, 170, 170, 42>>, <<162, 170, 170, 170>>,
    <<42, 34, 34, 34>>, <<42, 34, 34, 162>>, <<42, 34, 34, 42>>, <<42, 34, 34, 170>>,
    <<42, 34, 162, 34>>, <<42, 34, 162, 162>>, <<42, 34, 162, 42>>, <<42, 34, 162, 170>>,
    <<42, 34, 42, 34>>, <<42, 34, 42, 162>>, <<42, 34, 42, 42>>, <<42, 34, 42, 170>>,
    <<42, 34, 170, 34>>, <<42, 34, 170, 162>>, <<42, 34, 170, 42>>, <<42, 34, 170, 170>>,
    <<42, 162, 34, 34>>, <<42, 162, 34, 162>>, <<42, 162, 34, 42>>, <<42, 162, 34, 170>>,
    <<42, 162, 162, 34>>, <<42, 162, 162, 162>>, <<42, 162, 162, 42>>, <<42, 162, 162, 170>>,
    <<42, 162, 42, 34>>, <<42, 162, 42, 162>>, <<42, 162, 42, 42>>, <<42, 162, 42, 170>>,
    <<42, 162, 170, 34>>, <<42, 162, 170, 162>>, <<42, 162, 170, 42>>, <<42, 162, 170, 170>>,
    <<42, 42, 34, 34>>, <<42, 42, 34, 162>>, <<42, 42, 34, 42>>, <<42, 42, 34, 170>>,
    <<42, 42, 162, 34>>, <<42, 42, 162, 162>>, <<42, 42, 162, 42>>, <<42, 42, 162, 170>>,
    <<42, 42, 42, 34>>, <<42, 42, 42, 162>>, <<42, 42, 42, 42>>, <<42, 42, 42, 170>>,
    <<42, 42, 170, 34>>, <<42, 42, 170, 162>>, <<42, 42, 170, 42>>, <<42, 42, 170, 170>>,
    <<42, 170, 34, 34>>, <<42, 170, 34, 162>>, <<42, 170, 34, 42>>, <<42, 170, 34, 170>>,
    <<42, 170, 162, 34>>, <<42, 170, 162, 162>>, <<42, 170, 162, 42>>, <<42, 170, 162, 170>>,
    <<42, 170, 42, 34>>, <<42, 170, 42, 162>>, <<42, 170, 42, 42>>, <<42, 170, 42, 170>>,
    <<42, 170, 170, 34>>, <<42, 170, 170, 162>>, <<42, 170, 170, 42>>, <<42, 170, 170, 170>>,
    <<170, 34, 34, 34>>, <<170, 34, 34, 162>>, <<170, 34, 34, 42>>, <<170, 34, 34, 170>>,
    <<170, 34, 162, 34>>, <<170, 34, 162, 162>>, <<170, 34, 162, 42>>, <<170, 34, 162, 170>>,
    <<170, 34, 42, 34>>, <<170, 34, 42, 162>>, <<170, 34, 42, 42>>, <<170, 34, 42, 170>>,
    <<170, 34, 170, 34>>, <<170, 34, 170, 162>>, <<170, 34, 170, 42>>, <<170, 34, 170, 170>>,
    <<170, 162, 34, 34>>, <<170, 162, 34, 162>>, <<170, 162, 34, 42>>, <<170, 162, 34, 170>>,
    <<170, 162, 162, 34>>, <<170, 162, 162, 162>>, <<170, 162, 162, 42>>, <<170, 162, 162, 170>>,
    <<170, 162, 42, 34>>, <<170, 162, 42, 162>>, <<170, 162, 42, 42>>, <<170, 162, 42, 170>>,
    <<170, 162, 170, 34>>, <<170, 162, 170, 162>>, <<170, 162, 170, 42>>, <<170, 162, 170, 170>>,
    <<170, 42, 34, 34>>, <<170, 42, 34, 162>>, <<170, 42, 34, 42>>, <<170, 42, 34, 170>>,
    <<170, 42, 162, 34>>, <<170, 42, 162, 162>>, <<170, 42, 162, 42>>, <<170, 42, 162, 170>>,
    <<170, 42, 42, 34>>, <<170, 42, 42, 162>>, <<170, 42, 42, 42>>, <<170, 42, 42, 170>>,
    <<170, 42, 170, 34>>, <<170, 42, 170, 162>>, <<170, 42, 170, 42>>, <<170, 42, 170, 170>>,
    <<170, 170, 34, 34>>, <<170, 170, 34, 162>>, <<170, 170, 34, 42>>, <<170, 170, 34, 170>>,
    <<170, 170, 162, 34>>, <<170, 170, 162, 162>>, <<170, 170, 162, 42>>, <<170, 170, 162, 170>>,
    <<170, 170, 42, 34>>, <<170, 170, 42, 162>>, <<170, 170, 42, 42>>, <<170, 170, 42, 170>>,
    <<170, 170, 170, 34>>, <<170, 170, 170, 162>>, <<170, 170, 170, 42>>, <<170, 170, 170, 170>>
  >>

\* Util.rordl(word): word[3] << 24 | word[2] << 16 | word[1] << 8 | word[0].
\* The 32-bit value is kept as its four bytes, most significant first.
rordl(word) == <<word[4], word[3], word[2], word[1]>>

\* enc_byte & (1 << k) != 0 for a 32-bit value kept as four bytes
Bit32(enc_byte, k) == Bit(enc_byte[4 - (k \div 8)], k % 8)

\* SD_decode_byte with the tests of SDFormat.decode in the opposite order, bit 3
\* of the word giving bit 0 of the byte
SD_decode_byte_msb_first(enc_byte) ==
    (IF Bit32(enc_byte, 3) THEN 1 ELSE 0)
  + (IF Bit32(enc_byte, 7) THEN 2 ELSE 0)
  + (IF Bit32(enc_byte, 11) THEN 4 ELSE 0)
  + (IF Bit32(enc_byte, 15) THEN 8 ELSE 0)
  + (IF Bit32(enc_byte, 19) THEN 16 ELSE 0)
  + (IF Bit32(enc_byte, 23) THEN 32 ELSE 0)
  + (IF Bit32(enc_byte, 27) THEN 64 ELSE 0)
  + (IF Bit32(enc_byte, 31) THEN 128 ELSE 0)

\* the byte SDFormat.decode appends for one 4-byte group
SD_decode_byte(enc_byte) ==
    (IF Bit32(enc_byte, 31) THEN 1 ELSE 0)
  + (IF Bit32(enc_byte, 27) THEN 2 ELSE 0)
  + (IF Bit32(enc_byte, 23) THEN 4 ELSE 0)
  + (IF Bit32(enc_byte, 19) THEN 8 ELSE 0)
  + (IF Bit32(enc_byte, 15) THEN 16 ELSE 0)
  + (IF Bit32(enc_byte, 11) THEN 32 ELSE 0)
  + (IF Bit32(enc_byte, 7) THEN 64 ELSE 0)
  + (IF Bit32(enc_byte, 3) THEN 128 ELSE 0)

\* SDFormat.decode(stream): a group cut short by the end of the stream makes
\* Util.rordl index past it
SD_decode(stream) ==
  IF Len(stream) % 4 # 0 THEN [err |-> "IndexError", val |-> <<>>]
  ELSE [err |-> "",
        val |-> List([g \in 1..(Len(stream) \div 4) |->
                   SD_decode_byte(rordl(SubSeq(stream, 4 * g - 3, 4 * g)))])]

\* SDFormat.encode(track)
SD_encode(track) ==
  List([k \in 1..(4 * Len(track)) |->
          FM_CODES[track[((k - 1) \div 4) + 1] + 1][((k - 1) % 4) + 1]])

\* SD_interleave with the off-series branch counting sectors from track 37
\* without the factor SECTORS
SD_interleave_no_factor(side, track, sector, wtf_80t) ==
  IF ~wtf_80t \/ side = 0
    THEN At(SD_SECTOR_INTERLEAVE, (track * SD_SECTORS + sector) % 27)
  ELSE IF track < 37
    THEN At(SD_SECTOR_INTERLEAVE_WTF, (track * SD_SECTORS + sector) % 27)
  ELSE At(SD_SECTOR_INTERLEAVE, ((track - 37) + sector) % 27)

\* SDFormat.interleave(side, track, sector, wtf_80t)
SD_interleave(side, track, sector, wtf_80t) ==
  IF ~wtf_80t \/ side = 0
    THEN At(SD_SECTOR_INTERLEAVE, (track * SD_SECTORS + sector) % 27)
  ELSE IF track < 37
    THEN At(SD_SECTOR_INTERLEAVE_WTF, (track * SD_SECTORS + sector) % 27)
  ELSE At(SD_SECTOR_INTERLEAVE, ((track - 37) * SD_SECTORS + sector) % 27)

\* SDFormat.fix_clocks(stream): pass
SD_fix_clocks(stream) == [err |-> "", val |-> stream]

\* ---------------------------------------------------------------- DDFormat

DD_SECTORS == 18
DD_TRACK_LEN == 32 + 18 * 342 + 84

DD_LEADIN == Rep(<<73, 42>>, 32)
DD_LV_LEADIN == 32
DD_LEADOUT == Rep(<<73, 42>>, 84)
DD_LV_LEADOUT == 84

DD_ADDRESS_MARK == <<34, 145, 34, 145, 34, 145, 170, 42>>
DD_ADDRESS_MARK_WORD == 8849
DD_V_ADDRESS_MARK == <<161, 161, 161, 254>>
DD_V_ADDRESS_MARK_BYTE == 161
DD_LV_ADDRESS_MARK == 4
DD_DATA_MARK == <<34, 145, 34, 145, 34, 145, 170, 162>>
DD_V_DATA_MARK == <<161, 161, 161, 251>>
DD_LV_DATA_MARK == 4

DD_PREGAP == Rep(<<85>>, 2 * 12)
DD_LV_PREGAP == 12
DD_GAP1 == Rep(<<73, 42>>, 22) \o Rep(<<85>>, 2 * 12)
DD_LV_GAP1 == 34
DD_GAP2 == Rep(<<73, 42>>, 24)
DD_LV_GAP2 == 24

MVM_CODES ==
  <<
    <<85, 85>>, <<85, 149>>, <<85, 37>>, <<85, 165>>, <<85, 73>>, <<85, 137>>, <<85, 41>>, <<85, 169>>,
    <<85, 82>>, <<85, 146>>, <<85, 34>>, <<85, 162>>, <<85, 74>>, <<85, 138>>, <<85, 42>>, <<85, 170>>,
    <<149, 84>>, <<149, 148>>, <<149, 36>>, <<149, 164>>, <<149, 72>>, <<149, 136>>, <<149, 40>>, <<149, 168>>,
    <<149, 82>>, <<149, 146>>, <<149, 34>>, <<149, 162>>, <<149, 74>>, <<149, 138>>, <<149, 42>>, <<149, 170>>,
    <<37, 85>>, <<37, 149>>, <<37, 37>>, <<37, 165>>, <<37, 73>>, <<37, 137>>, <<37, 41>>, <<37, 169>>,
    <<37, 82>>, <<37, 146>>, <<37, 34>>, <<37, 162>>, <<37, 74>>, <<37, 138>>, <<37, 42>>, <<37, 170>>,
    <<165, 84>>, <<165, 148>>, <<165, 36>>, <<165, 164>>, <<165, 72>>, <<165, 136>>, <<165, 40>>, <<165, 168>>,
    <<165, 82>>, <<165, 146>>, <<165, 34>>, <<165, 162>>, <<165, 74>>, <<165, 138>>, <<165, 42>>, <<165, 170>>,
    <<73, 85>>, <<73, 149>>, <<73, 37>>, <<73, 165>>, <<73, 73>>, <<73, 137>>, <<73, 41>>, <<73, 169>>,
    <<73, 82>>, <<73, 146>>, <<73, 34>>, <<73, 162>>, <<73, 74>>, <<73, 138>>, <<73, 42>>, <<73, 170>>,
    <<137, 84>>, <<137, 148>>, <<137, 36>>, <<137, 164>>, <<137, 72>>, <<137, 136>>, <<137, 40>>, <<137, 168>>,
    <<137, 82>>, <<137, 146>>, <<137, 34>>, <<137, 162>>, <<137, 74>>, <<137, 138>>, <<137, 42>>, <<137, 170>>,
    <<41, 85>>, <<41, 149>>, <<41, 37>>, <<41, 165>>, <<41, 73>>, <<41, 137>>, <<41, 41>>, <<41, 169>>,
    <<41, 82>>, <<41, 146>>, <<41, 34>>, <<41, 162>>, <<41, 74>>, <<41, 138>>, <<41, 42>>, <<41, 170>>,
    <<169, 84>>, <<169, 148>>, <<169, 36>>, <<169, 164>>, <<169, 72>>, <<169, 136>>, <<169, 40>>, <<169, 168>>,
    <<169, 82>>, <<169, 146>>, <<169, 34>>, <<169, 162>>, <<169, 74>>, <<169, 138>>, <<169, 42>>, <<169, 170>>,
    <<82, 85>>, <<82, 149>>, <<82, 37>>, <<82, 165>>, <<82, 73>>, <<82, 137>>, <<82, 41>>, <<82, 169>>,
    <<82, 82>>, <<82, 146>>, <<82, 34>>, <<82, 162>>, <<82, 74>>, <<82, 138>>, <<82, 42>>, <<82, 170>>,
    <<146, 84>>, <<146, 148>>, <<146, 36>>, <<146, 164>>, <<146, 72>>, <<146, 136>>, <<146, 40>>, <<146, 168>>,
    <<146, 82>>, <<146, 146>>, <<146, 34>>, <<146, 162>>, <<146, 74>>, <<146, 138>>, <<146, 42>>, <<146, 170>>,
    <<34, 85>>, <<34, 149>>, <<34, 37>>, <<34, 165>>, <<34, 73>>, <<34, 137>>, <<34, 41>>, <<34, 169>>,
    <<34, 82>>, <<34, 146>>, <<34, 34>>, <<34, 162>>, <<34, 74>>, <<34, 138>>, <<34, 42>>, <<34, 170>>,
    <<162, 84>>, <<162, 148>>, <<162, 36>>, <<162, 164>>, <<162, 72>>, <<162, 136>>, <<162, 40>>, <<162, 168>>,
    <<162, 82>>, <<162, 146>>, <<162, 34>>, <<162, 162>>, <<162, 74>>, <<162, 138>>, <<162, 42>>, <<162, 170>>,
    <<74, 85>>, <<74, 149>>, <<74, 37>>, <<74, 165>>, <<74, 73>>, <<74, 137>>, <<74, 41>>, <<74, 169>>,
    <<74, 82>>, <<74, 146>>, <<74, 34>>, <<74, 162>>, <<74, 74>>, <<74, 138>>, <<74, 42>>, <<74, 170>>,
    <<138, 84>>, <<138, 148>>, <<138, 36>>, <<138, 164>>, <<138, 72>>, <<138, 136>>, <<138, 40>>, <<138, 168>>,
    <<138, 82>>, <<138, 146>>, <<138, 34>>, <<138, 162>>, <<138, 74>>, <<138, 138>>, <<138, 42>>, <<138, 170>>,
    <<42, 85>>, <<42, 149>>, <<42, 37>>, <<42, 165>>, <<42, 73>>, <<42, 137>>, <<42, 41>>, <<42, 169>>,
    <<42, 82>>, <<42, 146>>, <<42, 34>>, <<42, 162>>, <<42, 74>>, <<42, 138>>, <<42, 42>>, <<42, 170>>,
    <<170, 84>>, <<170, 148>>, <<170, 36>>, <<170, 164>>, <<170, 72>>, <<170, 136>>, <<170, 40>>, <<170, 168>>,
    <<170, 82>>, <<170, 146>>, <<170, 34>>, <<170, 162>>, <<170, 74>>, <<170, 138>>, <<170, 42>>, <<170, 170>>
  >>

\* DDFormat.interleave(side, track, sector, wtf80t)
DD_interleave(side, track, sector, wtf80t) == (sector * 11) % DD_SECTORS

\* Util.ordw(word): (word[0] << 8) | word[1]
ordw(word) == word[1] * 256 + word[2]

\* the keys of the dict lookup that DDFormat.decode builds
DD_lookup_keys == {ordw(MVM_CODES[i + 1]) : i \in 0..255}

\* lookup = {(word[0] << 8) | word[1]: i for i, word in enumerate(MVM_CODES)}:
\* a word listed twice keeps its last index
DD_lookup ==
  [w \in DD_lookup_keys |->
     CHOOSE i \in 0..255 :
       /\ ordw(MVM_CODES[i + 1]) = w
       /\ \A j \in 0..255 : ordw(MVM_CODES[j + 1]) = w => j <= i]

\* w | 0x0100 on a 16-bit word
OrClock(w) == IF Bit(w, 8) THEN w ELSE w + 256

\* DD_lookup_word without the second lookup, of w | 0x0100
DD_lookup_word_once(keys, lookup, w) ==
  IF w \in keys THEN lookup[w]
  ELSE -1

\* lookup[w] and, on KeyError, lookup[w | 0x0100]; -1 when that raises KeyError
\* too
DD_lookup_word(keys, lookup, w) ==
  IF w \in keys THEN lookup[w]
  ELSE IF OrClock(w) \in keys THEN lookup[OrClock(w)]
  ELSE -1

\* the byte DDFormat.decode appends for the word w, or -1 when both lookups
\* raise KeyError
DD_decode_word(w) ==
  IF w = DD_ADDRESS_MARK_WORD THEN DD_V_ADDRESS_MARK_BYTE
  ELSE DD_lookup_word(DD_lookup_keys, DD_lookup, w)

\* what DDFormat.decode(stream) returns or raises, given the byte of each of
\* its words: a stream of odd length makes Util.ordw index past its last word
DD_decode_result(stream, bytes_) ==
  IF \E g \in 1..Len(bytes_) : bytes_[g] = -1
    THEN [err |-> "KeyError", val |-> <<>>]
  ELSE IF Len(stream) % 2 # 0 THEN [err |-> "IndexError", val |-> <<>>]
  ELSE [err |-> "", val |-> bytes_]

\* DDFormat.decode(stream)
DD_decode(stream) ==
  DD_decode_result(stream,
    List([g \in 1..(Len(stream) \div 2) |->
            DD_decode_word(ordw(<<stream[2 * g - 1], stream[2 * g]>>))]))

\* DDFormat.encode(track)
DD_encode(track) ==
  List([k \in 1..(2 * Len(track)) |->
          MVM_CODES[track[((k - 1) \div 2) + 1] + 1][((k - 1) % 2) + 1]])

\* DD_fix_clocks_step with stream[idx + 1] >>= 1 for stream[idx + 1] &= 0xfe
DD_fix_clocks_step_shift(acc, n) ==
  LET idx == 2 * n + 1
  IN  IF acc.err # "" THEN acc
      ELSE IF ~Bit(At(acc.val, idx), 7) THEN acc
      ELSE IF idx + 1 >= Len(acc.val) THEN [err |-> "IndexError", val |-> <<>>]
      ELSE [err |-> "",
            val |-> [acc.val EXCEPT ![idx + 2] = At(acc.val, idx + 1) \div 2]]

\* one iteration of the loop of DDFormat.fix_clocks, for idx = 2 * n + 1:
\* stream[idx + 1] &= 0xfe raises IndexError when idx is the last index
DD_fix_clocks_step(acc, n) ==
  LET idx == 2 * n + 1
  IN  IF acc.err # "" THEN acc
      ELSE IF ~Bit(At(acc.val, idx), 7) THEN acc
      ELSE IF idx + 1 >= Len(acc.val) THEN [err |-> "IndexError", val |-> <<>>]
      ELSE [err |-> "",
            val |-> [acc.val EXCEPT ![idx + 2] = ClearBit0(At(acc.val, idx + 1))]]

\* DDFormat.fix_clocks(stream): for idx in range(1, len(stream), 2)
DD_fix_clocks(stream) ==
  Loop(DD_fix_clocks_step, [err |-> "", val |-> stream], 0, Len(stream) \div 2)

\* ---------------------------------------------------- format dispatch (fmt)

SDFormat ==
  [dd |-> FALSE, SECTORS |-> SD_SECTORS, TRACK_LEN |-> SD_TRACK_LEN,
   LEADIN |-> SD_LEADIN, LV_LEADIN |-> SD_LV_LEADIN,
   LEADOUT |-> SD_LEADOUT, LV_LEADOUT |-> SD_LV_LEADOUT,
   ADDRESS_MARK |-> SD_ADDRESS_MARK, V_ADDRESS_MARK |-> SD_V_ADDRESS_MARK,
   LV_ADDRESS_MARK |-> SD_LV_ADDRESS_MARK,
   DATA_MARK |-> SD_DATA_MARK, V_DATA_MARK |-> SD_V_DATA_MARK,
   LV_DATA_MARK |-> SD_LV_DATA_MARK,
   PREGAP |-> SD_PREGAP, LV_PREGAP |-> SD_LV_PREGAP,
   GAP1 |-> SD_GAP1, LV_GAP1 |-> SD_LV_GAP1,
   GAP2 |-> SD_GAP2, LV_GAP2 |-> SD_LV_GAP2]

DDFormat ==
  [dd |-> TRUE, SECTORS |-> DD_SECTORS, TRACK_LEN |-> DD_TRACK_LEN,
   LEADIN |-> DD_LEADIN, LV_LEADIN |-> DD_LV_LEADIN,
   LEADOUT |-> DD_LEADOUT, LV_LEADOUT |-> DD_LV_LEADOUT,
   ADDRESS_MARK |-> DD_ADDRESS_MARK, V_ADDRESS_MARK |-> DD_V_ADDRESS_MARK,
   LV_ADDRESS_MARK |-> DD_LV_ADDRESS_MARK,
   DATA_MARK |-> DD_DATA_MARK, V_DATA_MARK |-> DD_V_DATA_MARK,
   LV_DATA_MARK |-> DD_LV_DATA_MARK,
   PREGAP |-> DD_PREGAP, LV_PREGAP |-> DD_LV_PREGAP,
   GAP1 |-> DD_GAP1, LV_GAP1 |-> DD_LV_GAP1,
   GAP2 |-> DD_GAP2, LV_GAP2 |-> DD_LV_GAP2]

\* fmt = DDFormat if dd else SDFormat
Format(dd) == IF dd THEN DDFormat ELSE SDFormat

\* fmt.encode, fmt.decode, fmt.interleave, fmt.fix_clocks
encode(fmt, track) == IF fmt.dd THEN DD_encode(track) ELSE SD_encode(track)
decode(fmt, stream) == IF fmt.dd THEN DD_decode(stream) ELSE SD_decode(stream)
interleave(fmt, side, track, sector, wtf_80t) ==
  IF fmt.dd THEN DD_interleave(side, track, sector, wtf_80t)
  ELSE SD_interleave(side, track, sector, wtf_80t)
\* fmt.fix_clocks left out
fix_clocks_skipped(fmt, stream) == [err |-> "", val |-> stream]

fix_clocks(fmt, stream) ==
  IF fmt.dd THEN DD_fix_clocks(stream) ELSE SD_fix_clocks(stream)

\* ----------------------------------------------------------------- HFEDisk

HFE_INTERFACE_MODE == 7
HFE_BIT_RATE == 250
HFE_SD_ENCODING == 2
HFE_DD_ENCODING == 0

\* b'HXCPICFE'
HFE_MAGIC == <<72, 88, 67, 80, 73, 67, 70, 69>>

\* Util.rchrw(word): bytes((word & 0xff, word >> 8)); bytes() refuses a value
\* above 255
rchrw(word) == <<word % 256, word \div 256>>

\* crc16_step with x = b ^ lsb
crc16_step_b_xor_lsb(reg, b) ==
  LET x0 == Xor(b, reg[2])
      x == Xor(x0, x0 \div 16)
  IN  << Xor(Xor(reg[2], x \div 8), x * 16) % 256,
         Xor(x, x * 32) % 256 >>

\* crc16_step without x ^= (x >> 4)
crc16_step_no_fold(reg, b) ==
  LET x == Xor(b, reg[1])
  IN  << Xor(Xor(reg[2], x \div 8), x * 16) % 256,
         Xor(x, x * 32) % 256 >>

\* one iteration of the loop of HFEDisk.crc16 on the pair <<msb, lsb>>
crc16_step(reg, b) ==
  LET x0 == Xor(b, reg[1])
      x == Xor(x0, x0 \div 16)
  IN  << Xor(Xor(reg[2], x \div 8), x * 16) % 256,
         Xor(x, x * 32) % 256 >>

\* HFEDisk.crc16(crc, stream)
crc16(crc, stream) ==
  LET Step(reg, k) == crc16_step(reg, At(stream, k))
  IN  Loop(Step, <<crc \div 256, crc % 256>>, 0, Len(stream))

\* create_header with the bit rate written most significant byte first
create_header_big_endian(tracks, sides, dd, protected) ==
  LET info == HFE_MAGIC
              \o <<0, tracks, sides,
                   IF dd THEN HFE_DD_ENCODING ELSE HFE_SD_ENCODING>>
              \o <<HFE_BIT_RATE \div 256, HFE_BIT_RATE % 256>>
              \o rchrw(0)
              \o <<HFE_INTERFACE_MODE, 1>>
              \o rchrw(1)
              \o (IF protected THEN <<0>> ELSE <<255>>)
  IN  info \o Rep(<<255>>, 512 - Len(info))

\* HFEDisk.create_header(tracks, sides, dd, protected)
create_header(tracks, sides, dd, protected) ==
  LET info == HFE_MAGIC
              \o <<0, tracks, sides,
                   IF dd THEN HFE_DD_ENCODING ELSE HFE_SD_ENCODING>>
              \o rchrw(HFE_BIT_RATE)
              \o rchrw(0)
              \o <<HFE_INTERFACE_MODE, 1>>
              \o rchrw(1)
              \o (IF protected THEN <<0>> ELSE <<255>>)
  IN  info \o Rep(<<255>>, 512 - Len(info))

\* HFEDisk.create_lut(tracks, dd): b'\xff' * n is empty for n <= 0
create_lut(tracks, dd) ==
  LET entry(i) == rchrw(49 * i + 2) \o (IF dd THEN <<192, 97>> ELSE <<176, 97>>)
      lut == List([k \in 1..(4 * tracks) |->
                     entry((k - 1) \div 4)[((k - 1) % 4) + 1]])
      pad == 512 - 4 * tracks
  IN  lut \o (IF pad > 0 THEN Rep(<<255>>, pad) ELSE <<>>)

\* sector_bytes with GAP2 before the pregap, the encoded data record last
sector_bytes_gap2_first(tracks, fmt, sectors, s, j, sector_id) ==
  LET track_id == IF s # 0 THEN tracks - 1 - j ELSE j
      offset == ((s * tracks + j) * fmt.SECTORS + sector_id) * 256
      sector == Slice(sectors, offset, offset + 256)
      addr == <<track_id, s, sector_id, 1>>
  IN  fmt.GAP2
      \o fmt.PREGAP
      \o fmt.ADDRESS_MARK
      \o encode(fmt, addr \o crc16(65535, fmt.V_ADDRESS_MARK \o addr))
      \o fmt.GAP1
      \o fmt.DATA_MARK
      \o encode(fmt, sector \o crc16(65535, fmt.V_DATA_MARK \o sector))

\* the bytes that one pass of the loop over i in HFEDisk.create_tracks hands to
\* sector_data.extend, for side s, track j and the sector_id of its slot
sector_bytes(tracks, fmt, sectors, s, j, sector_id) ==
  LET track_id == IF s # 0 THEN tracks - 1 - j ELSE j
      offset == ((s * tracks + j) * fmt.SECTORS + sector_id) * 256
      sector == Slice(sectors, offset, offset + 256)
      addr == <<track_id, s, sector_id, 1>>
  IN  fmt.PREGAP
      \o fmt.ADDRESS_MARK
      \o encode(fmt, addr \o crc16(65535, fmt.V_ADDRESS_MARK \o addr))
      \o fmt.GAP1
      \o fmt.DATA_MARK
      \o encode(fmt, sector \o crc16(65535, fmt.V_DATA_MARK \o sector))
      \o fmt.GAP2

\* one pass of the loop over i in HFEDisk.create_tracks, for side s, track j
\* and slot i
create_sector(tracks, fmt, sectors, s, j, i) ==
  sector_bytes(tracks, fmt, sectors, s, j, interleave(fmt, s, j, i, tracks = 80))

\* track = fmt.LEADIN + sector_data + fmt.LEADOUT without the lead-out
lead_in_only(fmt, fixed) ==
  IF fixed.err # "" THEN fixed
  ELSE [err |-> "", val |-> fmt.LEADIN \o fixed.val]

\* track = fmt.LEADIN + sector_data + fmt.LEADOUT, for the sector_data that
\* fmt.fix_clocks left
lead_in_out(fmt, fixed) ==
  IF fixed.err # "" THEN fixed
  ELSE [err |-> "", val |-> fmt.LEADIN \o fixed.val \o fmt.LEADOUT]

\* the track that one pass of the loop over j in HFEDisk.create_tracks appends
\* to track_data[s]
create_track(tracks, fmt, sectors, s, j) ==
  lead_in_out(fmt,
    fix_clocks(fmt,
      Concat(List([i \in 1..fmt.SECTORS |->
                     create_sector(tracks, fmt, sectors, s, j, i - 1)]),
             1, fmt.SECTORS)))

\* track_data_of without track_data[1].reverse()
track_data_no_reverse(tracks, sides, built) ==
  IF \E s \in 1..Len(built) : \E j \in 1..tracks : built[s][j].err # ""
    THEN [err |-> "IndexError", val |-> <<>>]
  ELSE IF sides > 2 /\ tracks > 0 THEN [err |-> "IndexError", val |-> <<>>]
  ELSE [err |-> "",
        val |-> << IF sides >= 1 THEN List([j \in 1..tracks |-> built[1][j].val])
                   ELSE <<>>,
                   IF sides >= 2 THEN List([j \in 1..tracks |-> built[2][j].val])
                   ELSE <<>> >>]

\* track_data of HFEDisk.create_tracks after track_data[1].reverse(), given
\* the tracks built for each side: track_data[s] has no list for s >= 2
track_data_of(tracks, sides, built) ==
  IF \E s \in 1..Len(built) : \E j \in 1..tracks : built[s][j].err # ""
    THEN [err |-> "IndexError", val |-> <<>>]
  ELSE IF sides > 2 /\ tracks > 0 THEN [err |-> "IndexError", val |-> <<>>]
  ELSE [err |-> "",
        val |-> << IF sides >= 1 THEN List([j \in 1..tracks |-> built[1][j].val])
                   ELSE <<>>,
                   IF sides >= 2
                     THEN List([j \in 1..tracks |-> built[2][tracks + 1 - j].val])
                   ELSE <<>> >>]

\* the loops over s and j of HFEDisk.create_tracks
create_track_data(tracks, sides, fmt, sectors) ==
  track_data_of(tracks, sides,
    List([s \in 1..Min(sides, 2) |->
            List([j \in 1..tracks |->
                    create_track(tracks, fmt, sectors, s - 1, j - 1)])]))

\* b''.join(list)
join(list) == Concat(list, 1, Len(list))

\* the return value of HFEDisk.create_tracks, given its track_data:
\* (b''.join(track_data[0]), b''.join(track_data[1]))
create_tracks_join(td) ==
  IF td.err # "" THEN td
  ELSE [err |-> "", val |-> <<join(td.val[1]), join(td.val[2])>>]

\* HFEDisk.create_tracks(tracks, sides, fmt, sectors): (side_0, side_1)
create_tracks(tracks, sides, fmt, sectors) ==
  create_tracks_join(create_track_data(tracks, sides, fmt, sectors))

\* the sandwich of HFEDisk.create_from_disk: side_0[i:i+256] followed by
\* bytes(256) when side_1 is empty, else by side_1[i:i+256]
sandwich(side_0, side_1) ==
  LET n == (Len(side_0) + 255) \div 256
      dummy == Rep(<<0>>, 256)
  IN  Concat(List([c \in 1..n |->
                     Slice(side_0, 256 * (c - 1), 256 * c)
                     \o (IF side_1 = <<>> THEN dummy
                         ELSE Slice(side_1, 256 * (c - 1), 256 * c))]),
             1, n)

\* the end of HFEDisk.create_from_disk: the sandwich, the assertion and the
\* returned image, given header, lut and the outcome of create_tracks
hfe_image_of(header, lut, sd) ==
  IF sd.err # "" THEN sd
  ELSE IF ~(Len(header) = 512 /\ Len(lut) = 512)
    THEN [err |-> "AssertionError", val |-> <<>>]
  ELSE [err |-> "", val |-> header \o lut \o sandwich(sd.val[1], sd.val[2])]

\* HFEDisk.create_from_disk(image)
create_from_disk(image) ==
  IF Len(image) < 20 THEN [err |-> "IndexError", val |-> <<>>]
  ELSE
    LET tracks == At(image, 17)
        sides == At(image, 18)
        dd == At(image, 19) = 2
        protected == Slice(image, 16, 17) = <<80>>
    IN  hfe_image_of(create_header(tracks, sides, dd, protected),
                     create_lut(tracks, dd),
                     create_tracks(tracks, sides, Format(dd), image))

\* HFEDisk.get_hfe_params(image): (tracks, sides, encoding, ifmode)
get_hfe_params(image) ==
  IF Slice(image, 0, 8) # HFE_MAGIC
    THEN [err |-> "HFEError: Not a HFE image", val |-> <<>>]
  ELSE IF Len(image) < 17 THEN [err |-> "IndexError", val |-> <<>>]
  ELSE [err |-> "",
        val |-> <<At(image, 9), At(image, 10), At(image, 11), At(image, 16)>>]

\* HFEDisk with the interface mode checked before the encoding
HFEDisk_mode_first(image) ==
  LET header == Slice(image, 0, 512)
      params == get_hfe_params(header)
      encoding == params.val[3]
      ifmode == params.val[4]
  IN  IF params.err # "" THEN [err |-> params.err, val |-> <<>>]
      ELSE IF ifmode # 7
        THEN [err |-> "HFEError: Invalid mode", val |-> <<>>]
      ELSE IF encoding # HFE_SD_ENCODING /\ encoding # HFE_DD_ENCODING
        THEN [err |-> "HFEError: Invalid encoding", val |-> <<>>]
      ELSE [err |-> "",
            val |-> [header |-> header,
                     lut |-> Slice(image, 512, 1024),
                     trackdata |-> Slice(image, 1024, Len(image)),
                     tracks |-> params.val[1],
                     sides |-> params.val[2],
                     encoding |-> encoding,
                     ifmode |-> ifmode,
                     dd |-> (encoding = HFE_DD_ENCODING)]]

\* HFEDisk.__init__(image): the object's fields, or the exception
HFEDisk(image) ==
  LET header == Slice(image, 0, 512)
      params == get_hfe_params(header)
      encoding == params.val[3]
      ifmode == params.val[4]
  IN  IF params.err # "" THEN [err |-> params.err, val |-> <<>>]
      ELSE IF encoding # HFE_SD_ENCODING /\ encoding # HFE_DD_ENCODING
        THEN [err |-> "HFEError: Invalid encoding", val |-> <<>>]
      ELSE IF ifmode # 7
        THEN [err |-> "HFEError: Invalid mode", val |-> <<>>]
      ELSE [err |-> "",
            val |-> [header |-> header,
                     lut |-> Slice(image, 512, 1024),
                     trackdata |-> Slice(image, 1024, Len(image)),
                     tracks |-> params.val[1],
                     sides |-> params.val[2],
                     encoding |-> encoding,
                     ifmode |-> ifmode,
                     dd |-> (encoding = HFE_DD_ENCODING)]]

\* list(Util.chop(s, n)): the pieces s[0:n], s[n:2n], ..., the last one
\* possibly shorter
chop(s, n) ==
  List([c \in 1..((Len(s) + n - 1) \div n) |-> Slice(s, n * (c - 1), n * c)])

\* b''.join(chunks[k::2]) for the 256-byte chunks of trackdata, k = 0 or 1
side_stream(trackdata, k) ==
  LET chunks == chop(trackdata, 256)
      picked == List([c \in 1..((Len(chunks) + 1 - k) \div 2) |->
                        chunks[2 * c - 1 + k]])
  IN  join(picked)

\* tracks0 + tracks1 without tracks1.reverse()
all_tracks_no_reverse(sides, size, dec0, dec1) ==
  IF dec0.err # "" THEN [err |-> dec0.err, val |-> <<>>]
  ELSE IF sides # 2 THEN [err |-> "", val |-> chop(dec0.val, size)]
  ELSE IF dec1.err # "" THEN [err |-> dec1.err, val |-> <<>>]
  ELSE [err |-> "", val |-> chop(dec0.val, size) \o chop(dec1.val, size)]

\* list.reverse()
reverse(list) == List([t \in 1..Len(list) |-> list[Len(list) + 1 - t]])

\* tracks0 + tracks1 of HFEDisk.get_tracks, given decode(side_0) and
\* decode(side_1); side_1 is decoded only if self.sides == 2
all_tracks(sides, size, dec0, dec1) ==
  IF dec0.err # "" THEN [err |-> dec0.err, val |-> <<>>]
  ELSE IF sides # 2 THEN [err |-> "", val |-> chop(dec0.val, size)]
  ELSE IF dec1.err # "" THEN [err |-> dec1.err, val |-> <<>>]
  ELSE [err |-> "",
        val |-> chop(dec0.val, size) \o reverse(chop(dec1.val, size))]

\* HFEDisk.get_tracks(self): the decoded tracks, side 0 then side 1 reversed
get_tracks(self) ==
  all_tracks(self.sides, Format(self.dd).TRACK_LEN,
             decode(Format(self.dd), side_stream(self.trackdata, 0)),
             decode(Format(self.dd), side_stream(self.trackdata, 1)))

\* one pass of the loop over i in HFEDisk.extract_sectors on one track:
\* acc.h1 is the cursor, acc.track_sectors the dict sector_id -> payload
extract_slot(fmt, track, acc, i) ==
  IF acc.err # "" THEN acc
  ELSE
    LET a0 == acc.h1 + fmt.LV_PREGAP
        a1 == a0 + fmt.LV_ADDRESS_MARK
        address_mark == Slice(track, a0, a1)
        id0 == a1
        id1 == a1 + 6
        g1 == id1 + fmt.LV_GAP1
        d0 == g1
        d1 == g1 + fmt.LV_DATA_MARK
        data_mark == Slice(track, d0, d1)
        s0 == d1
        s1 == d1 + 258
        fail(e) == [err |-> e, h1 |-> acc.h1, track_sectors |-> acc.track_sectors]
    IN  IF address_mark # fmt.V_ADDRESS_MARK THEN fail("AssertionError")
        ELSE IF id0 + 2 >= Len(track) THEN fail("IndexError")
        ELSE IF At(track, id0 + 2) \in DOMAIN acc.track_sectors
          THEN fail("AssertionError")
        ELSE IF data_mark # fmt.V_DATA_MARK THEN fail("AssertionError")
        ELSE [err |-> "",
              h1 |-> s1 + fmt.LV_GAP2,
              track_sectors |->
                [id \in DOMAIN acc.track_sectors \cup {At(track, id0 + 2)} |->
                   IF id = At(track, id0 + 2) THEN Slice(track, s0, s0 + 256)
                   ELSE acc.track_sectors[id]]]

\* sorted(track_sectors) as a sequence
RECURSIVE sorted(_)
sorted(S) ==
  IF S = {} THEN <<>>
  ELSE LET m == CHOOSE x \in S : \A y \in S : x <= y
       IN  <<m>> \o sorted(S \ {m})

\* sorted_sectors with the payloads in descending order of their sector_ids
sorted_sectors_descending(fmt, track, walked) ==
  LET ids == sorted(DOMAIN walked.track_sectors)
  IN  IF walked.err # "" THEN [err |-> walked.err, val |-> <<>>]
      ELSE IF walked.h1 + fmt.LV_LEADOUT # Len(track)
        THEN [err |-> "AssertionError", val |-> <<>>]
      ELSE [err |-> "",
            val |-> Concat(List([k \in 1..Len(ids) |->
                                   walked.track_sectors[ids[Len(ids) + 1 - k]]]),
                           1, Len(ids))]

\* the end of the body of the loop over the tracks in HFEDisk.extract_sectors,
\* given the cursor and the dict that the loop over i left: the assertion on
\* the lead-out and the bytes that sectors.extend receives
sorted_sectors(fmt, track, walked) ==
  LET ids == sorted(DOMAIN walked.track_sectors)
  IN  IF walked.err # "" THEN [err |-> walked.err, val |-> <<>>]
      ELSE IF walked.h1 + fmt.LV_LEADOUT # Len(track)
        THEN [err |-> "AssertionError", val |-> <<>>]
      ELSE [err |-> "",
            val |-> Concat(List([k \in 1..Len(ids) |->
                                   walked.track_sectors[ids[k]]]),
                           1, Len(ids))]

\* the body of the loop over the tracks in HFEDisk.extract_sectors
extract_track(fmt, track) ==
  LET Step(acc, i) == extract_slot(fmt, track, acc, i)
  IN  sorted_sectors(fmt, track,
        Loop(Step, [err |-> "", h1 |-> fmt.LV_LEADIN, track_sectors |-> <<>>],
             0, fmt.SECTORS))

\* bytes(sectors) of HFEDisk.extract_sectors, given the outcome of the loop
\* body for each track: the first exception, or all the bytes
all_sectors(per) ==
  LET bad == {t \in 1..Len(per) : per[t].err # ""}
      first == CHOOSE t \in bad : \A u \in bad : t <= u
  IN  IF bad # {} THEN [err |-> per[first].err, val |-> <<>>]
      ELSE [err |-> "",
            val |-> Concat(List([t \in 1..Len(per) |-> per[t].val]), 1, Len(per))]

\* extract_sectors without the comparison of len(tracks) with sides * tracks
extract_sectors_no_count(self, tracks) ==
  IF Len(tracks) = 0 THEN [err |-> "IndexError", val |-> <<>>]
  ELSE IF Len(tracks[1]) # Format(self.dd).TRACK_LEN
    THEN [err |-> "AssertionError", val |-> <<>>]
  ELSE all_sectors(List([t \in 1..Len(tracks) |->
                           extract_track(Format(self.dd), tracks[t])]))

\* HFEDisk.extract_sectors(self, tracks)
extract_sectors(self, tracks) ==
  IF Len(tracks) # self.sides * self.tracks
    THEN [err |-> "HFEError: Invalid track count", val |-> <<>>]
  ELSE IF Len(tracks) = 0 THEN [err |-> "IndexError", val |-> <<>>]
  ELSE IF Len(tracks[1]) # Format(self.dd).TRACK_LEN
    THEN [err |-> "AssertionError", val |-> <<>>]
  ELSE all_sectors(List([t \in 1..Len(tracks) |->
                           extract_track(Format(self.dd), tracks[t])]))

\* self.extract_sectors(tracks) for the outcome of self.get_tracks()
extract_tracks(self, tracks) ==
  IF tracks.err # "" THEN tracks
  ELSE extract_sectors(self, tracks.val)

\* HFEDisk.to_disk_image(self)
to_disk_image(self) == extract_tracks(self, get_tracks(self))

\* HFEDisk(hfe_image).to_disk_image(), given the outcome of HFEDisk(hfe_image)
disk_to_disk_image(disk) ==
  IF disk.err # "" THEN [err |-> disk.err, val |-> <<>>]
  ELSE to_disk_image(disk.val)

\* ------------------------------------------------------------ sector images

MaxTracks == 2

\* byte k of the contents of pattern pat; sector k \div 256 differs from its
\* neighbours in patterns 1 and 2
content(pat, k) ==
  LET sec == k \div 256
  IN  CASE pat = 0 -> 0
        [] pat = 1 -> ((k % 256) * (sec + 1) + sec) % 256
        [] OTHER -> (k * 167 + 13 + 31 * sec + (k \div 65536)) % 256

\* a sector image as xdm99 lays it out: sides * tracks * SECTORS sectors of 256
\* bytes, with the protection flag, tracks, sides and density in bytes 0x10..0x13
sector_image(tracks, sides, dd, protected, pat) ==
  List([k \in 1..(sides * tracks * Format(dd).SECTORS * 256) |->
          CASE k - 1 = 16 -> IF protected THEN 80 ELSE 32
            [] k - 1 = 17 -> tracks
            [] k - 1 = 18 -> sides
            [] k - 1 = 19 -> IF dd THEN 2 ELSE 1
            [] OTHER -> content(pat, k - 1)])

\* the track count at which create_tracks asks for the 80-track interleave
QuirkTracks == 80

\* one track more than the 512-byte LUT has 4-byte entries for
OverLut == (512 \div 4) + 1

\* the sector images the conversions are run on
Inputs ==
  [tracks : 1..MaxTracks, sides : 1..2, dd : BOOLEAN, protected : BOOLEAN,
   pat : 1..2]
  \cup {[tracks |-> QuirkTracks, sides |-> 2, dd |-> FALSE, protected |-> FALSE,
         pat |-> 2],
        [tracks |-> OverLut, sides |-> 1, dd |-> FALSE, protected |-> FALSE,
         pat |-> 0]}

NoResult == [err |-> "none", val |-> <<>>]

\* a call's outcome with its bytes cut into 256-byte blocks, the unit of the
\* sectors of a sector image and of the chunks of an HFE image
blocks(r) == [err |-> r.err, val |-> chop(r.val, 256)]

\* ------------------------------------------------------------------- state

VARIABLES
  img,    \* the sector image handed to tohfe, as its 256-byte sectors
  hfe,    \* the outcome of create_from_disk(img), as 256-byte blocks
  back,   \* the outcome of HFEDisk(hfe).to_disk_image(), as 256-byte sectors
  hfe2,   \* the outcome of create_from_disk(back), as 256-byte blocks
  pc,     \* how far the conversions have run
  trk,    \* one track of create_tracks: its image, side and index, and its bytes
  codec,  \* one byte through fmt.encode and fmt.decode
  ilv,    \* the sector_ids of the slots of one track, as interleave gives them
  crc,    \* the pair msb, lsb of crc16 while it runs over a record
  hd,     \* create_header for one set of parameters, and its reading
  lt,     \* create_lut for one track count
  opn,    \* HFEDisk(image) for one image
  rd,     \* to_disk_image on one HFE image, damaged or not
  fx      \* one stream through fix_clocks, twice

vars == <<img, hfe, back, hfe2, pc, trk, codec, ilv, crc, hd, lt, opn, rd, fx>>

imageVars == <<img, hfe, back, hfe2, pc>>

IdleImage ==
  /\ img = <<>>
  /\ hfe = NoResult
  /\ back = NoResult
  /\ hfe2 = NoResult
  /\ pc = "idle"

IdleTrk == [image |-> [tracks |-> 0, sides |-> 0, dd |-> FALSE,
                       protected |-> FALSE, pat |-> 0],
            s |-> 0, j |-> 0, track |-> NoResult, pc |-> "idle"]
IdleCodec == [dd |-> FALSE, byte |-> 0, stream |-> <<>>, alt |-> FALSE,
              dec |-> NoResult, pc |-> "idle"]
IdleIlv == [dd |-> FALSE, side |-> 0, track |-> 0, wtf_80t |-> FALSE, ids |-> <<>>,
            pc |-> "idle"]
IdleCrc == [reg |-> <<255, 255>>, pc |-> "idle"]
IdleHd == [tracks |-> 0, sides |-> 0, dd |-> FALSE, protected |-> FALSE,
           header |-> <<>>, params |-> NoResult, disk |-> NoResult, pc |-> "idle"]
IdleLt == [tracks |-> 0, dd |-> FALSE, lut |-> <<>>, pc |-> "idle"]
IdleOpn == [image |-> <<>>, disk |-> NoResult, dsk |-> NoResult, pc |-> "idle"]
IdleRd == [image |-> <<>>, tracks |-> NoResult, dsk |-> NoResult, pc |-> "idle"]
IdleFx == [dd |-> FALSE, stream |-> <<>>, once |-> NoResult, twice |-> NoResult,
           pc |-> "idle"]

\* ------------------------------------- the conversions tohfe and fromhfe

Init ==
  /\ \E c \in Inputs :
       img = chop(sector_image(c.tracks, c.sides, c.dd, c.protected, c.pat), 256)
  /\ hfe = NoResult
  /\ back = NoResult
  /\ hfe2 = NoResult
  /\ pc = "dsk"
  /\ trk = IdleTrk
  /\ codec = IdleCodec
  /\ ilv = IdleIlv
  /\ crc = IdleCrc
  /\ hd = IdleHd
  /\ lt = IdleLt
  /\ opn = IdleOpn
  /\ rd = IdleRd
  /\ fx = IdleFx

\* Xhm99Processor.tohfe: hfe = HFEDisk.create_from_disk(dsk_image)
ToHfe ==
  /\ pc = "dsk"
  /\ hfe' = blocks(create_from_disk(join(img)))
  /\ pc' = "hfe"
  /\ UNCHANGED <<img, back, hfe2, trk, codec, ilv, crc, hd, lt, opn, rd, fx>>

\* Xhm99Processor.fromhfe: dsk = HFEDisk(hfe_image).to_disk_image()
FromHfe ==
  /\ pc = "hfe"
  /\ hfe.err = ""
  /\ back' = blocks(disk_to_disk_image(HFEDisk(join(hfe.val))))
  /\ pc' = "back"
  /\ UNCHANGED <<img, hfe, hfe2, trk, codec, ilv, crc, hd, lt, opn, rd, fx>>

\* Xhm99Processor.tohfe on the image that fromhfe wrote
ToHfeAgain ==
  /\ pc = "back"
  /\ back.err = ""
  /\ hfe2' = blocks(create_from_disk(join(back.val)))
  /\ pc' = "hfe2"
  /\ UNCHANGED <<img, hfe, back, trk, codec, ilv, crc, hd, lt, opn, rd, fx>>

Next == ToHfe \/ FromHfe \/ ToHfeAgain

Spec == Init /\ [][Next]_vars

\* -------------------------------------------- one track of create_tracks

\* the tracks looked at: the first and the last of a side, and those on either
\* side of the change of branch of SDFormat.interleave
TrackIndexes(tracks) == {0, 36, 37, tracks - 1} \cap 0..(tracks - 1)

InitTrk ==
  /\ \E c \in Inputs :
       \E s \in 0..(c.sides - 1), j \in TrackIndexes(c.tracks) :
         trk = [image |-> c, s |-> s, j |-> j, track |-> NoResult, pc |-> "image"]
  /\ IdleImage
  /\ codec = IdleCodec
  /\ ilv = IdleIlv
  /\ crc = IdleCrc
  /\ hd = IdleHd
  /\ lt = IdleLt
  /\ opn = IdleOpn
  /\ rd = IdleRd
  /\ fx = IdleFx

\* one pass of the loop over j in create_tracks, for side s of the image
TrkCreate ==
  /\ trk.pc = "image"
  /\ LET c == trk.image
         image == sector_image(c.tracks, c.sides, c.dd, c.protected, c.pat)
     IN  trk' = [trk EXCEPT
                   !.track = create_track(At(image, 17), Format(At(image, 19) = 2),
                                          image, trk.s, trk.j),
                   !.pc = "track"]
  /\ UNCHANGED <<imageVars, codec, ilv, crc, hd, lt, opn, rd, fx>>

NextTrk == TrkCreate

SpecTrk == InitTrk /\ [][NextTrk]_vars

\* --------------------------------------- one byte through encode and decode

InitCodec ==
  /\ \E dd \in BOOLEAN, b \in 0..255 :
       codec = [dd |-> dd, byte |-> b, stream |-> <<>>, alt |-> FALSE,
                dec |-> NoResult, pc |-> "byte"]
  /\ IdleImage
  /\ trk = IdleTrk
  /\ ilv = IdleIlv
  /\ crc = IdleCrc
  /\ hd = IdleHd
  /\ lt = IdleLt
  /\ opn = IdleOpn
  /\ rd = IdleRd
  /\ fx = IdleFx

\* stream = fmt.encode([byte])
CodecEncode ==
  /\ codec.pc = "byte"
  /\ codec' = [codec EXCEPT !.stream = encode(Format(codec.dd), <<codec.byte>>),
                            !.pc = "encoded"]
  /\ UNCHANGED <<imageVars, trk, ilv, crc, hd, lt, opn, rd, fx>>

\* the alternate-clock form of an MFM word: bit 0x0100 of the word, bit 0 of
\* its first byte, cleared, as DDFormat.fix_clocks does after a byte with bit 7
CodecAltClock ==
  /\ codec.pc = "encoded"
  /\ codec.dd
  /\ ~codec.alt
  /\ codec' = [codec EXCEPT !.stream = <<ClearBit0(codec.stream[1]), codec.stream[2]>>,
                            !.alt = TRUE]
  /\ UNCHANGED <<imageVars, trk, ilv, crc, hd, lt, opn, rd, fx>>

\* dec = fmt.decode(stream)
CodecDecode ==
  /\ codec.pc = "encoded"
  /\ codec' = [codec EXCEPT !.dec = decode(Format(codec.dd), codec.stream),
                            !.pc = "decoded"]
  /\ UNCHANGED <<imageVars, trk, ilv, crc, hd, lt, opn, rd, fx>>

NextCodec == CodecEncode \/ CodecAltClock \/ CodecDecode

SpecCodec == InitCodec /\ [][NextCodec]_vars

\* ------------------------------------------------ the slots of one track

MaxTrackIndex == 80

InitIlv ==
  /\ \E dd \in BOOLEAN, side \in 0..1, track \in 0..MaxTrackIndex,
        wtf_80t \in BOOLEAN :
       ilv = [dd |-> dd, side |-> side, track |-> track, wtf_80t |-> wtf_80t,
              ids |-> <<>>, pc |-> "slots"]
  /\ IdleImage
  /\ trk = IdleTrk
  /\ codec = IdleCodec
  /\ crc = IdleCrc
  /\ hd = IdleHd
  /\ lt = IdleLt
  /\ opn = IdleOpn
  /\ rd = IdleRd
  /\ fx = IdleFx

\* one pass of the loop over i in create_tracks:
\* sector_id = fmt.interleave(s, j, i, tracks == 80)
IlvSlot ==
  /\ ilv.pc = "slots"
  /\ Len(ilv.ids) < Format(ilv.dd).SECTORS
  /\ ilv' = [ilv EXCEPT !.ids =
               Append(ilv.ids,
                      interleave(Format(ilv.dd), ilv.side, ilv.track,
                                 Len(ilv.ids), ilv.wtf_80t))]
  /\ UNCHANGED <<imageVars, trk, codec, crc, hd, lt, opn, rd, fx>>

NextIlv == IlvSlot

SpecIlv == InitIlv /\ [][NextIlv]_vars

\* ------------------------------------------------------------------ crc16

\* the bytes fed to crc16: those of the marks and of the ID fields
CrcBytes == {0, 1, 161, 251, 254}

InitCrc ==
  /\ crc = [reg |-> <<65535 \div 256, 65535 % 256>>, pc |-> "crc"]
  /\ IdleImage
  /\ trk = IdleTrk
  /\ codec = IdleCodec
  /\ ilv = IdleIlv
  /\ hd = IdleHd
  /\ lt = IdleLt
  /\ opn = IdleOpn
  /\ rd = IdleRd
  /\ fx = IdleFx

\* one pass of the loop of crc16 over the bytes of a record
CrcFeed ==
  /\ crc.pc = "crc"
  /\ \E b \in CrcBytes :
       crc' = [crc EXCEPT !.reg = crc16_step(crc.reg, b)]
  /\ UNCHANGED <<imageVars, trk, codec, ilv, hd, lt, opn, rd, fx>>

NextCrc == CrcFeed

SpecCrc == InitCrc /\ [][NextCrc]_vars

\* --------------------------------------------------------- create_header

InitHd ==
  /\ \E tracks \in 0..255, sides \in 0..255, dd \in BOOLEAN, protected \in BOOLEAN :
       hd = [tracks |-> tracks, sides |-> sides, dd |-> dd, protected |-> protected,
             header |-> <<>>, params |-> NoResult, disk |-> NoResult,
             pc |-> "params"]
  /\ IdleImage
  /\ trk = IdleTrk
  /\ codec = IdleCodec
  /\ ilv = IdleIlv
  /\ crc = IdleCrc
  /\ lt = IdleLt
  /\ opn = IdleOpn
  /\ rd = IdleRd
  /\ fx = IdleFx

\* header = HFEDisk.create_header(tracks, sides, dd, protected)
HdCreate ==
  /\ hd.pc = "params"
  /\ hd' = [hd EXCEPT !.header = create_header(hd.tracks, hd.sides, hd.dd,
                                               hd.protected),
                      !.pc = "header"]
  /\ UNCHANGED <<imageVars, trk, codec, ilv, crc, lt, opn, rd, fx>>

\* HFEDisk.get_hfe_params(header) and HFEDisk(header)
HdRead ==
  /\ hd.pc = "header"
  /\ hd' = [hd EXCEPT !.params = get_hfe_params(hd.header),
                      !.disk = HFEDisk(hd.header),
                      !.pc = "read"]
  /\ UNCHANGED <<imageVars, trk, codec, ilv, crc, lt, opn, rd, fx>>

NextHd == HdCreate \/ HdRead

SpecHd == InitHd /\ [][NextHd]_vars

\* ------------------------------------------------------------ create_lut

InitLt ==
  /\ \E tracks \in 0..255, dd \in BOOLEAN :
       lt = [tracks |-> tracks, dd |-> dd, lut |-> <<>>, pc |-> "tracks"]
  /\ IdleImage
  /\ trk = IdleTrk
  /\ codec = IdleCodec
  /\ ilv = IdleIlv
  /\ crc = IdleCrc
  /\ hd = IdleHd
  /\ opn = IdleOpn
  /\ rd = IdleRd
  /\ fx = IdleFx

\* lut = HFEDisk.create_lut(tracks, dd)
LtCreate ==
  /\ lt.pc = "tracks"
  /\ lt' = [lt EXCEPT !.lut = create_lut(lt.tracks, lt.dd), !.pc = "lut"]
  /\ UNCHANGED <<imageVars, trk, codec, ilv, crc, hd, opn, rd, fx>>

NextLt == LtCreate

SpecLt == InitLt /\ [][NextLt]_vars

\* --------------------------------------------------------- HFEDisk(image)

\* values for the encoding byte and for the interface-mode byte of an image
EncodingBytes == {0, 1, 2, 3, 255}
ModeBytes == {0, 6, 7, 8, 255}

\* track data that neither format decodes: SDFormat.decode runs past its one
\* group, DDFormat.decode finds no word 0x0000
NoTrackData == <<0, 0, 0>>

\* the lengths of the images: cut inside the magic, cut between the encoding
\* byte and the interface-mode byte, and whole
ImageLengths == {4, 12, 512 + 512 + Len(NoTrackData)}

\* the first n bytes of an HFE image of 40 tracks with byte k of the magic
\* replaced by v (k = -1: the magic as it is), its encoding byte and its
\* interface-mode byte
hfe_image(k, v, encoding, ifmode, n) ==
  LET header == create_header(40, 1, FALSE, FALSE)
      image == [i \in 1..512 |->
                  CASE i - 1 = k -> v
                    [] i - 1 = 11 -> encoding
                    [] i - 1 = 16 -> ifmode
                    [] OTHER -> header[i]]
               \o create_lut(40, FALSE)
               \o NoTrackData
  IN  Slice(image, 0, n)

InitOpn ==
  /\ \E k \in -1..7, v \in {0, 72}, encoding \in EncodingBytes, ifmode \in ModeBytes,
        n \in ImageLengths :
       opn = [image |-> hfe_image(k, v, encoding, ifmode, n), disk |-> NoResult,
              dsk |-> NoResult, pc |-> "image"]
  /\ IdleImage
  /\ trk = IdleTrk
  /\ codec = IdleCodec
  /\ ilv = IdleIlv
  /\ crc = IdleCrc
  /\ hd = IdleHd
  /\ lt = IdleLt
  /\ rd = IdleRd
  /\ fx = IdleFx

\* disk = HFEDisk(image)
OpnInit ==
  /\ opn.pc = "image"
  /\ opn' = [opn EXCEPT !.disk = HFEDisk(opn.image), !.pc = "disk"]
  /\ UNCHANGED <<imageVars, trk, codec, ilv, crc, hd, lt, rd, fx>>

\* dsk = disk.to_disk_image(), which is where track data is decoded
OpnToDiskImage ==
  /\ opn.pc = "disk"
  /\ opn.disk.err = ""
  /\ opn' = [opn EXCEPT !.dsk = to_disk_image(opn.disk.val), !.pc = "dsk"]
  /\ UNCHANGED <<imageVars, trk, codec, ilv, crc, hd, lt, rd, fx>>

NextOpn == OpnInit \/ OpnToDiskImage

SpecOpn == InitOpn /\ [][NextOpn]_vars

\* ------------------------------------- to_disk_image on damaged HFE images

\* the width of one sector slot of a decoded track, as the cursor h1 of
\* HFEDisk.extract_sectors advances over it
slot_len(fmt) ==
  fmt.LV_PREGAP + fmt.LV_ADDRESS_MARK + 6 + fmt.LV_GAP1 + fmt.LV_DATA_MARK
  + 258 + fmt.LV_GAP2

\* where the cursor of HFEDisk.extract_sectors finds the fields of slot i of a
\* decoded track: the address mark, the ID record, the data mark, the payload
address_mark_at(fmt, i) == fmt.LV_LEADIN + i * slot_len(fmt) + fmt.LV_PREGAP
id_at(fmt, i) == address_mark_at(fmt, i) + fmt.LV_ADDRESS_MARK
data_mark_at(fmt, i) == id_at(fmt, i) + 6 + fmt.LV_GAP1
data_at(fmt, i) == data_mark_at(fmt, i) + fmt.LV_DATA_MARK

\* the decoded offset that a damage d of a track touches
damage_at(fmt, d) ==
  CASE d.kind = "address_mark" ->
         address_mark_at(fmt, d.i) + fmt.LV_ADDRESS_MARK - 1
    [] d.kind = "data_mark" -> data_mark_at(fmt, d.i) + fmt.LV_DATA_MARK - 1
    [] OTHER -> id_at(fmt, d.i) + 2

\* stream with the bytes from offset at on replaced by those of piece
patch(stream, at, piece) ==
  Slice(stream, 0, at) \o piece \o Slice(stream, at + Len(piece), Len(stream))

\* the stream of side s with the damage d, if d is one of a track of that
\* side: the encoded form of one decoded byte of track d.p is that of d.v
damaged_side(fmt, d, s, stream) ==
  IF d.kind \in {"address_mark", "data_mark", "sector_id"} /\ d.s = s
    THEN patch(stream,
               (Len(fmt.LEADIN) \div fmt.LV_LEADIN)
                 * (d.p * fmt.TRACK_LEN + damage_at(fmt, d)),
               encode(fmt, <<d.v>>))
  ELSE stream

\* the header with the damage d, if d is one of the header: the byte of the
\* track count or of the side count is d.v
damaged_header(d, header) ==
  CASE d.kind = "tracks" -> [header EXCEPT ![10] = d.v]
    [] d.kind = "sides" -> [header EXCEPT ![11] = d.v]
    [] OTHER -> header

\* the track data with the damage d, if d is one of its length: the last two
\* chunks missing, or the first two chunks once more at the end
damaged_trackdata(d, trackdata) ==
  CASE d.kind = "short" -> Slice(trackdata, 0, Len(trackdata) - 512)
    [] d.kind = "long" -> trackdata \o Slice(trackdata, 0, 512)
    [] OTHER -> trackdata

\* an HFE image of the parts that create_from_disk made, with the damage d
damaged_parts(fmt, d, header, lut, sd) ==
  damaged_header(d, header)
  \o lut
  \o damaged_trackdata(d, sandwich(damaged_side(fmt, d, 0, sd[1]),
                                   damaged_side(fmt, d, 1, sd[2])))

\* the HFE image of the sector image c, with the damage d
damaged_image(c, d) ==
  damaged_parts(Format(c.dd), d,
                create_header(c.tracks, c.sides, c.dd, c.protected),
                create_lut(c.tracks, c.dd),
                create_tracks(c.tracks, c.sides, Format(c.dd),
                              sector_image(c.tracks, c.sides, c.dd, c.protected,
                                           c.pat)).val)

\* the sector images whose HFE images are damaged
Sound ==
  [tracks : 1..MaxTracks, sides : 1..2, dd : BOOLEAN, protected : {FALSE},
   pat : {1}]

\* the damages of the HFE image of c: none; a track or side count in the
\* header that the track data does not have; track data cut short or too
\* long; on the first track of the last side, a mark that is not the
\* format's, and a sector_id that another slot has or that no sector has
Damages(c) ==
  {[kind |-> "none", s |-> 0, p |-> 0, i |-> 0, v |-> 0]}
  \cup [kind : {"tracks"}, s : {0}, p : {0}, i : {0}, v : {0, c.tracks + 1}]
  \cup [kind : {"sides"}, s : {0}, p : {0}, i : {0}, v : {0, 3 - c.sides, 3}]
  \cup [kind : {"short", "long"}, s : {0}, p : {0}, i : {0}, v : {0}]
  \cup [kind : {"address_mark", "data_mark"}, s : {c.sides - 1}, p : {0},
        i : {0, Format(c.dd).SECTORS - 1}, v : {0}]
  \cup [kind : {"sector_id"}, s : {c.sides - 1}, p : {0}, i : {1},
        v : {0, Format(c.dd).SECTORS, 255}]

InitRd ==
  /\ \E c \in Sound :
       \E d \in Damages(c) :
         rd = [image |-> chop(damaged_image(c, d), 256), tracks |-> NoResult,
               dsk |-> NoResult, pc |-> "image"]
  /\ IdleImage
  /\ trk = IdleTrk
  /\ codec = IdleCodec
  /\ ilv = IdleIlv
  /\ crc = IdleCrc
  /\ hd = IdleHd
  /\ lt = IdleLt
  /\ opn = IdleOpn
  /\ fx = IdleFx

\* the two statements of HFEDisk.to_disk_image on the object self:
\* tracks = self.get_tracks(), then self.extract_sectors(tracks)
read_tracks(self, tracks) ==
  [image |-> rd.image, tracks |-> tracks,
   dsk |-> blocks(extract_tracks(self, tracks)), pc |-> "read"]

\* dsk = HFEDisk(hfe_image).to_disk_image()
RdToDiskImage ==
  /\ rd.pc = "image"
  /\ HFEDisk(join(rd.image)).err = ""
  /\ rd' = read_tracks(HFEDisk(join(rd.image)).val,
                       get_tracks(HFEDisk(join(rd.image)).val))
  /\ UNCHANGED <<imageVars, trk, codec, ilv, crc, hd, lt, opn, fx>>

NextRd == RdToDiskImage

SpecRd == InitRd /\ [][NextRd]_vars

\* ------------------------------------------------- fix_clocks on one stream

MaxStream == 4

\* bytes with bit 7 and bit 0 clear and set, and the last byte of GAP2
ClockBytes == {0, 1, 42, 128, 129, 255}

\* the streams of at most MaxStream bytes
Streams == UNION {[1..n -> ClockBytes] : n \in 0..MaxStream}

InitFx ==
  /\ \E dd \in BOOLEAN, stream \in Streams :
       fx = [dd |-> dd, stream |-> stream, once |-> NoResult, twice |-> NoResult,
             pc |-> "stream"]
  /\ IdleImage
  /\ trk = IdleTrk
  /\ codec = IdleCodec
  /\ ilv = IdleIlv
  /\ crc = IdleCrc
  /\ hd = IdleHd
  /\ lt = IdleLt
  /\ opn = IdleOpn
  /\ rd = IdleRd

\* fmt.fix_clocks(stream)
FxOnce ==
  /\ fx.pc = "stream"
  /\ fx' = [fx EXCEPT !.once = fix_clocks(Format(fx.dd), fx.stream),
                      !.pc = "once"]
  /\ UNCHANGED <<imageVars, trk, codec, ilv, crc, hd, lt, opn, rd>>

\* fmt.fix_clocks(stream) on the stream that the first call left
FxTwice ==
  /\ fx.pc = "once"
  /\ fx.once.err = ""
  /\ fx' = [fx EXCEPT !.twice = fix_clocks(Format(fx.dd), fx.once.val),
                      !.pc = "twice"]
  /\ UNCHANGED <<imageVars, trk, codec, ilv, crc, hd, lt, opn, rd>>

NextFx == FxOnce \/ FxTwice

SpecFx == InitFx /\ [][NextFx]_vars

\* ================================================================= claims

\* the sector image, given as its sectors, is valid: its bytes 0x11..0x13 name
\* its own geometry
valid_image(sectors) ==
  /\ Len(sectors) >= 1
  /\ \A k \in 1..Len(sectors) : Len(sectors[k]) = 256
  /\ At(sectors[1], 18) \in {1, 2}
  /\ Len(sectors) = At(sectors[1], 18) * At(sectors[1], 17)
                    * Format(At(sectors[1], 19) = 2).SECTORS

\* C1: for every valid sector image img, create_from_disk(img) returns an HFE
\* image, and HFEDisk of that image gives img back from to_disk_image(), for SD
\* and DD, one side and two, the 80-track interleave and any sector contents.
C1_SectorRoundTrip ==
  valid_image(img) =>
    /\ pc # "dsk" => hfe.err = ""
    /\ pc \in {"back", "hfe2"} => back = [err |-> "", val |-> img]

\* C1's failing input: the valid single-sided SD image of 129 tracks
C1_Refused ==
  /\ pc = "hfe"
  /\ valid_image(img)
  /\ At(img[1], 17) = OverLut
  /\ hfe.err = "AssertionError"

\* C2: for every HFE image H that create_from_disk produced from a valid
\* sector image, HFEDisk(H).to_disk_image() is a sector image again and
\* create_from_disk of it is H byte for byte (header, LUT and track chunks).
C2_HfeRoundTrip ==
  (valid_image(img) /\ hfe.err = "") =>
    /\ pc \in {"back", "hfe2"} => back.err = ""
    /\ pc = "hfe2" =>
         /\ hfe2.err = ""
         /\ hfe2.val = hfe.val
         /\ Slice(hfe2.val, 0, 2) = Slice(hfe.val, 0, 2)
         /\ Slice(hfe2.val, 2, 4) = Slice(hfe.val, 2, 4)

\* a write-protected two-sided DD image of two tracks went round
C2_Witness ==
  /\ pc = "hfe2"
  /\ hfe2 = hfe
  /\ hfe.err = ""
  /\ Slice(hfe.val[1], 9, 12) = <<2, 2, HFE_DD_ENCODING>>
  /\ At(hfe.val[1], 20) = 0
  /\ Len(hfe.val) = 4 + 2 * 2 * 49

\* C3: for every byte b, SDFormat.decode(SDFormat.encode([b])) = [b]; decode
\* takes bits 31, 27, ..., 3 of the group read in reverse byte order as bits
\* 0..7 of the byte; and the entries of FM_CODES are pairwise distinct.
C3_FmByte ==
  ~codec.dd =>
    /\ codec.pc = "decoded" =>
         /\ codec.dec = [err |-> "", val |-> <<codec.byte>>]
         /\ \A k \in 0..7 :
              Bit(codec.dec.val[1], k) = Bit32(rordl(codec.stream), 31 - 4 * k)
    /\ codec.pc = "encoded" =>
         /\ Len(codec.stream) = 4
         /\ \A b \in 0..255 :
              b # codec.byte => FM_CODES[b + 1] # codec.stream

\* the byte 0xA5 went through the FM code and back
C3_Witness ==
  /\ ~codec.dd
  /\ codec.pc = "decoded"
  /\ codec.byte = 165
  /\ codec.stream = FM_CODES[166]
  /\ codec.dec.val = <<165>>

\* C4: for every byte b, DDFormat.decode(DDFormat.encode([b])) = [b], and the
\* word with bit 0x0100 cleared decodes to [b] too; the MVM_CODES words are
\* pairwise distinct, and no word nor its alternate-clock form is the
\* address-mark word 0x2291 or decodes as another byte's word.
C4_MfmByte ==
  codec.dd =>
    /\ codec.pc = "decoded" => codec.dec = [err |-> "", val |-> <<codec.byte>>]
    /\ codec.pc = "encoded" =>
         /\ Len(codec.stream) = 2
         /\ ordw(codec.stream) # DD_ADDRESS_MARK_WORD
         /\ \A b \in 0..255 :
              b # codec.byte =>
                /\ MVM_CODES[b + 1] # codec.stream
                /\ ordw(MVM_CODES[b + 1]) # OrClock(ordw(codec.stream))

\* a word whose bit 0x0100 was set went through decode with the bit cleared
C4_Witness ==
  /\ codec.dd
  /\ codec.pc = "decoded"
  /\ codec.alt
  /\ codec.stream # MVM_CODES[codec.byte + 1]
  /\ ordw(codec.stream) \notin DD_lookup_keys
  /\ codec.dec.val = <<codec.byte>>

\* C5: for every side, every track index and both values of the 80-track flag,
\* the sector_ids that interleave gives for the slots 0..SECTORS-1 of a track
\* are a permutation of 0..SECTORS-1, for SDFormat in its three branches and
\* for DDFormat.
C5_Interleave ==
  ilv.pc = "slots" =>
    /\ \A i \in 1..Len(ilv.ids) : ilv.ids[i] \in 0..(Format(ilv.dd).SECTORS - 1)
    /\ \A i, j \in 1..Len(ilv.ids) : i # j => ilv.ids[i] # ilv.ids[j]
    /\ Len(ilv.ids) = Format(ilv.dd).SECTORS =>
         {ilv.ids[i] : i \in 1..Len(ilv.ids)} = 0..(Format(ilv.dd).SECTORS - 1)

\* all slots of side 1 of track 40 of an 80-track SD disk (the off-series
\* branch) have their sector_id
C5_Witness ==
  /\ ilv.pc = "slots"
  /\ ~ilv.dd
  /\ ilv.side = 1
  /\ ilv.wtf_80t
  /\ ilv.track = 40
  /\ Len(ilv.ids) = SD_SECTORS

\* the fields of a format are m encoded bytes per decoded byte wide
field_widths(fmt, m) ==
  /\ Len(fmt.LEADIN) = m * fmt.LV_LEADIN
  /\ Len(fmt.LEADOUT) = m * fmt.LV_LEADOUT
  /\ Len(fmt.ADDRESS_MARK) = m * fmt.LV_ADDRESS_MARK
  /\ Len(fmt.DATA_MARK) = m * fmt.LV_DATA_MARK
  /\ Len(fmt.PREGAP) = m * fmt.LV_PREGAP
  /\ Len(fmt.GAP1) = m * fmt.LV_GAP1
  /\ Len(fmt.GAP2) = m * fmt.LV_GAP2
  /\ Len(fmt.V_ADDRESS_MARK) = fmt.LV_ADDRESS_MARK
  /\ Len(fmt.V_DATA_MARK) = fmt.LV_DATA_MARK
  /\ m * fmt.TRACK_LEN = 12544

\* C6: for every valid sector image every track that create_tracks builds is
\* exactly 12544 bytes long, 4 * TRACK_LEN for SD and 2 * TRACK_LEN for DD and
\* 49 chunks of 256 bytes; the raw field constants are 4 (SD) or 2 (DD) times
\* as long as their LV_ widths.
C6_TrackLength ==
  /\ field_widths(SDFormat, 4)
  /\ field_widths(DDFormat, 2)
  /\ SDFormat.TRACK_LEN = 3136
  /\ DDFormat.TRACK_LEN = 6272
  /\ 49 * 256 = 12544
  /\ trk.pc = "track" =>
       /\ trk.track.err = ""
       /\ Len(trk.track.val) = 12544
       /\ Len(trk.track.val) =
            (IF trk.image.dd THEN 2 ELSE 4) * Format(trk.image.dd).TRACK_LEN

\* create_tracks built the last track of side 1 of a two-sided DD image
C6_Witness ==
  /\ trk.pc = "track"
  /\ trk.image.dd
  /\ trk.image.sides = 2
  /\ trk.s = 1
  /\ trk.j = trk.image.tracks - 1
  /\ trk.track.err = ""
  /\ Len(trk.track.val) = 2 * DD_TRACK_LEN

\* C7: for every record rec, crc16(0xFFFF, rec + crc16(0xFFFF, rec)) = [0, 0]:
\* whatever the register holds after rec, feeding its two bytes, msb first,
\* brings it to zero.
C7_CrcSelfCheck ==
  crc.pc = "crc" => crc16(crc.reg[1] * 256 + crc.reg[2], crc.reg) = <<0, 0>>

\* the register after the ID record of track 0, side 0, sector 0
C7_Witness ==
  /\ crc.pc = "crc"
  /\ crc.reg = crc16(65535, DD_V_ADDRESS_MARK \o <<0, 0, 0, 1>>)
  /\ crc.reg # <<0, 0>>
  /\ crc.reg # <<255, 255>>

\* the bytes 21..511 of a header
HeaderFill == Rep(<<255>>, 512 - 21)

\* C8: for all tracks and sides in 0..255 and all dd and protected,
\* create_header returns 512 bytes: 'HXCPICFE', 00, tracks, sides, encoding (0
\* for DD, 2 for SD), FA 00, 00 00, 07, 01, 01 00, 00 if protected else FF, and
\* FF up to byte 511; get_hfe_params of it is (tracks, sides, encoding, 7) and
\* HFEDisk accepts it.
C8_Header ==
  LET encoding == IF hd.dd THEN 0 ELSE 2
  IN  /\ hd.pc \in {"header", "read"} =>
           /\ Len(hd.header) = 512
           /\ Slice(hd.header, 0, 8) = <<72, 88, 67, 80, 73, 67, 70, 69>>
           /\ Slice(hd.header, 8, 12) = <<0, hd.tracks, hd.sides, encoding>>
           /\ Slice(hd.header, 12, 20) = <<250, 0, 0, 0, 7, 1, 1, 0>>
           /\ At(hd.header, 20) = IF hd.protected THEN 0 ELSE 255
           /\ Slice(hd.header, 21, 512) = HeaderFill
      /\ hd.pc = "read" =>
           /\ hd.params = [err |-> "", val |-> <<hd.tracks, hd.sides, encoding, 7>>]
           /\ hd.disk.err = ""
           /\ hd.disk.val.tracks = hd.tracks
           /\ hd.disk.val.sides = hd.sides
           /\ hd.disk.val.dd = hd.dd

\* the header of a write-protected DD disk of 40 tracks and 2 sides was read
C8_Witness ==
  /\ hd.pc = "read"
  /\ hd.tracks = 40
  /\ hd.sides = 2
  /\ hd.dd
  /\ hd.protected
  /\ hd.params.val = <<40, 2, 0, 7>>
  /\ hd.disk.err = ""

\* C9: for every track count a byte can hold, create_lut returns 512 bytes: for
\* each track i the 16-bit value 0x31 * i + 2, low byte first, then C0 61 (DD)
\* or B0 61 (SD), and FF in every remaining byte, so the assertion of
\* create_from_disk on the length of the LUT holds.
C9_Lut ==
  lt.pc = "lut" =>
    /\ Len(lt.lut) = 512
    /\ \A i \in 0..(lt.tracks - 1) :
         Slice(lt.lut, 4 * i, 4 * i + 4) =
           <<(49 * i + 2) % 256, (49 * i + 2) \div 256,
             IF lt.dd THEN 192 ELSE 176, 97>>
    /\ \A k \in (4 * lt.tracks)..511 : At(lt.lut, k) = 255

\* C9's failing input: the LUT of 129 tracks is 516 bytes long
C9_Overlong ==
  /\ lt.pc = "lut"
  /\ lt.tracks = OverLut
  /\ Len(lt.lut) = 516

bad_magic(image) == Slice(image, 0, 8) # HFE_MAGIC
bad_encoding(image) == At(image, 11) \notin {0, 2}
bad_mode(image) == At(image, 16) # 7

rd_tracks == At(rd.image[1], 9)
rd_sides == At(rd.image[1], 10)
rd_fmt == Format(At(rd.image[1], 11) = HFE_DD_ENCODING)

\* the decoded bytes of the chunks of side s of the image that rd holds, the
\* chunks s, s + 2, ... of those after the header and the LUT, cut into blocks
\* of TRACK_LEN bytes
rd_side_tracks(s) ==
  chop(decode(rd_fmt,
              join(List([c \in 1..((Len(rd.image) - 4 + 1 - s) \div 2) |->
                           rd.image[4 + 2 * c - 1 + s]]))).val,
       rd_fmt.TRACK_LEN)

\* the number of decoded tracks: the blocks of side 0, and those of side 1
\* only when the header has two sides
rd_track_count ==
  Len(rd_side_tracks(0)) + (IF rd_sides = 2 THEN Len(rd_side_tracks(1)) ELSE 0)

\* the exceptions of class HFEError
hfe_errors ==
  {"HFEError: Not a HFE image", "HFEError: Invalid encoding",
   "HFEError: Invalid mode", "HFEError: Invalid track count"}

\* C11: to_disk_image fails with HFEError ('Invalid track count') whenever the
\* number of decoded tracks (the TRACK_LEN-sized blocks of the even-indexed
\* chunks, plus those of the odd-indexed chunks only when sides == 2) differs
\* from sides * tracks of the header, and then returns no sector data at all.
C11_TrackCount ==
  (rd.pc = "read" /\ rd.tracks.err = "") =>
    /\ Len(rd.tracks.val) = rd_track_count
    /\ rd_track_count # rd_sides * rd_tracks =>
         /\ rd.dsk.err = "HFEError: Invalid track count"
         /\ rd.dsk.val = <<>>

\* an image of one side and one track whose header says two tracks was
\* refused for its track count
C11_Witness ==
  /\ rd.pc = "read"
  /\ rd.tracks.err = ""
  /\ rd_sides = 1
  /\ rd_track_count = 1
  /\ rd_tracks = 2
  /\ rd.dsk.err = "HFEError: Invalid track count"

\* the sector_id in the ID record of slot i of a decoded track
slot_id(fmt, track, i) == At(track, id_at(fmt, i) + 2)

\* the decoded tracks that rd holds are whole: every one has TRACK_LEN bytes,
\* and there are sides * tracks of them
rd_whole_tracks ==
  /\ rd.pc = "read"
  /\ rd.tracks.err = ""
  /\ Len(rd.tracks.val) = rd_sides * rd_tracks
  /\ \A t \in 1..Len(rd.tracks.val) : Len(rd.tracks.val[t]) = rd_fmt.TRACK_LEN

\* a whole decoded track with a wrong address mark, a wrong data mark or a
\* sector_id that two slots carry
malformed(fmt, track) ==
  \/ \E i \in 0..(fmt.SECTORS - 1) :
       \/ Slice(track, address_mark_at(fmt, i), id_at(fmt, i)) # fmt.V_ADDRESS_MARK
       \/ Slice(track, data_mark_at(fmt, i), data_at(fmt, i)) # fmt.V_DATA_MARK
  \/ \E i, k \in 0..(fmt.SECTORS - 1) :
       i # k /\ slot_id(fmt, track, i) = slot_id(fmt, track, k)

\* a whole decoded track with a sector_id outside 0..SECTORS-1
out_of_range(fmt, track) ==
  \E i \in 0..(fmt.SECTORS - 1) : slot_id(fmt, track, i) \notin 0..(fmt.SECTORS - 1)

\* C12: when a decoded track has bytes other than V_ADDRESS_MARK at an
\* address-mark position, bytes other than V_DATA_MARK at a data-mark position,
\* or two slots with the same sector_id, to_disk_image fails with HFEError, the
\* failure kind of the header and track-count errors, and returns no sector
\* data.
C12_MalformedTrack ==
  (rd_whole_tracks
   /\ \E t \in 1..Len(rd.tracks.val) : malformed(rd_fmt, rd.tracks.val[t])) =>
    /\ rd.dsk.err \in hfe_errors
    /\ rd.dsk.val = <<>>

\* a track with a wrong mark or a repeated sector_id stopped to_disk_image
\* with AssertionError
C12_Asserted ==
  /\ rd_whole_tracks
  /\ \E t \in 1..Len(rd.tracks.val) : malformed(rd_fmt, rd.tracks.val[t])
  /\ rd.dsk.err = "AssertionError"
  /\ rd.dsk.val = <<>>

\* C13: to_disk_image rejects every track in which an ID record carries a
\* sector_id outside 0..SECTORS-1, even when all marks match and all
\* sector_ids of the track are distinct.
C13_SectorIdRange ==
  (rd_whole_tracks
   /\ \E t \in 1..Len(rd.tracks.val) : out_of_range(rd_fmt, rd.tracks.val[t])) =>
    rd.dsk.err # ""

\* a track with a sector_id outside 0..SECTORS-1, sound marks and distinct
\* sector_ids went into the sector image that to_disk_image returned
C13_Accepted ==
  /\ rd_whole_tracks
  /\ \E t \in 1..Len(rd.tracks.val) :
       /\ out_of_range(rd_fmt, rd.tracks.val[t])
       /\ ~malformed(rd_fmt, rd.tracks.val[t])
  /\ rd.dsk.err = ""
  /\ Len(rd.dsk.val) = rd_sides * rd_tracks * rd_fmt.SECTORS

\* the decoded track that the sectors of track t of the returned image come
\* from: block t of side 0, then the blocks of side 1 from the last to the
\* first
rd_source_track(t) ==
  IF t < rd_tracks THEN rd_side_tracks(0)[t + 1]
  ELSE rd_side_tracks(1)[2 * rd_tracks - t]

\* the place of the payload of slot i among those of its track: the number of
\* slots with a smaller sector_id
rank(fmt, track, i) ==
  Cardinality({k \in 0..(fmt.SECTORS - 1) :
                 slot_id(fmt, track, k) < slot_id(fmt, track, i)})

\* C14: whenever to_disk_image succeeds its result has sides * tracks * SECTORS
\* * 256 bytes; the tracks are those of side 0 in order, then those of side 1;
\* within a track the payloads are in ascending order of the sector_id of
\* their ID records, whatever the order of the slots, each being the 256 bytes
\* after the data mark of its slot.
C14_SectorOrder ==
  (rd.pc = "read" /\ rd.dsk.err = "") =>
    /\ Len(rd.dsk.val) = rd_sides * rd_tracks * rd_fmt.SECTORS
    /\ \A b \in 1..Len(rd.dsk.val) : Len(rd.dsk.val[b]) = 256
    /\ \A t \in 0..(rd_sides * rd_tracks - 1) :
         \A i \in 0..(rd_fmt.SECTORS - 1) :
           rd.dsk.val[t * rd_fmt.SECTORS
                      + rank(rd_fmt, rd_source_track(t), i) + 1]
             = Slice(rd_source_track(t), data_at(rd_fmt, i),
                     data_at(rd_fmt, i) + 256)

\* to_disk_image returned the sectors of a two-sided image of more than one
\* track whose slots are not in the order of their sector_ids
C14_Witness ==
  /\ rd.pc = "read"
  /\ rd.dsk.err = ""
  /\ rd_sides = 2
  /\ rd_tracks > 1
  /\ Len(rd.dsk.val) = 2 * rd_tracks * rd_fmt.SECTORS
  /\ slot_id(rd_fmt, rd_source_track(rd_tracks), 1) # 1
  /\ rd_source_track(rd_tracks) # rd_source_track(2 * rd_tracks - 1)

\* ------------------------------------------------- claims on create_from_disk

\* the track count, the side count and the format in the sector image img
img_tracks == At(img[1], 17)
img_sides == At(img[1], 18)
img_fmt == Format(At(img[1], 19) = 2)

\* the encoded track at position p of the stream of side s in the HFE image
\* hfe: 49 chunks, every second one of those after the header and the LUT
hfe_track(s, p) ==
  join(List([c \in 1..49 |-> hfe.val[4 + 2 * (49 * p + c - 1) + s + 1]]))

\* the decoded track at position p of side s of hfe carries track_id p and
\* side s in every ID record, and its payloads are the sectors of track j of
\* side s of img
placed(s, p, j, track) ==
  \A i \in 0..(img_fmt.SECTORS - 1) :
    /\ At(track, id_at(img_fmt, i)) = p
    /\ At(track, id_at(img_fmt, i) + 1) = s
    /\ Slice(track, data_at(img_fmt, i), data_at(img_fmt, i) + 256)
         = img[(s * img_tracks + j) * img_fmt.SECTORS
               + slot_id(img_fmt, track, i) + 1]

\* C15: in the emitted image the encoded track built from side-1 track j of the
\* sector image (sectors at offsets ((tracks + j) * SECTORS + sector_id) * 256)
\* is at side-1 position tracks - 1 - j, and every ID record in it carries
\* track_id = tracks - 1 - j and side = 1; side-0 track j is at position j with
\* track_id = j. On both sides track_id is the track's position in its side's
\* stream, and the reversal of get_tracks restores index j. Stated of the
\* images of at most MaxTracks tracks.
C15_SideOneOrder ==
  (pc \in {"hfe", "back", "hfe2"} /\ hfe.err = "" /\ img_tracks <= MaxTracks) =>
    /\ \A p \in TrackIndexes(img_tracks) :
         /\ placed(0, p, p, decode(img_fmt, hfe_track(0, p)).val)
         /\ img_sides = 2 =>
              placed(1, p, img_tracks - 1 - p, decode(img_fmt, hfe_track(1, p)).val)
    /\ (pc \in {"back", "hfe2"} /\ img_sides = 2) =>
         /\ back.err = ""
         /\ \A j \in TrackIndexes(img_tracks) :
              \A k \in 1..img_fmt.SECTORS :
                back.val[(img_tracks + j) * img_fmt.SECTORS + k]
                  = img[(img_tracks + j) * img_fmt.SECTORS + k]

\* fromhfe read back a two-sided image of more than one track whose first and
\* last track of side 1 differ, the last one standing first in the stream
C15_Witness ==
  /\ pc = "back"
  /\ hfe.err = ""
  /\ back.err = ""
  /\ img_sides = 2
  /\ img_tracks > 1
  /\ hfe_track(1, 0) # hfe_track(1, img_tracks - 1)
  /\ At(decode(img_fmt, hfe_track(1, 0)).val, id_at(img_fmt, 0)) = 0
  /\ Slice(decode(img_fmt, hfe_track(1, 0)).val, data_at(img_fmt, 0),
           data_at(img_fmt, 0) + 256)
       = img[(2 * img_tracks - 1) * img_fmt.SECTORS + 1]

\* ---------------------------------------------------- claims on fix_clocks

\* C16: for every even-length MFM stream on which DDFormat.fix_clocks
\* completes, a second fix_clocks leaves the stream unchanged; fix_clocks only
\* clears bit 0 of the even-indexed bytes of index >= 2 whose preceding byte
\* has bit 7 set, and changes no odd-indexed byte and no other bit.
\* SDFormat.fix_clocks changes nothing.
C16_FixClocks ==
  (fx.pc \in {"once", "twice"} /\ fx.once.err = "") =>
    /\ Len(fx.once.val) = Len(fx.stream)
    /\ \A idx \in 0..(Len(fx.stream) - 1) :
         At(fx.once.val, idx) =
           IF fx.dd /\ idx % 2 = 0 /\ idx >= 2 /\ Bit(At(fx.stream, idx - 1), 7)
             THEN At(fx.stream, idx) - (At(fx.stream, idx) % 2)
           ELSE At(fx.stream, idx)
    /\ ~fx.dd => fx.once.val = fx.stream
    /\ fx.pc = "twice" => fx.twice = fx.once

\* an MFM stream of two words that the first fix_clocks changed went through
\* it a second time
C16_Witness ==
  /\ fx.pc = "twice"
  /\ fx.dd
  /\ Len(fx.stream) = 4
  /\ Bit(At(fx.stream, 1), 7)
  /\ At(fx.stream, 2) % 2 = 1
  /\ fx.once.err = ""
  /\ fx.once.val # fx.stream
  /\ fx.twice = fx.once

\* sector_data of HFEDisk.create_tracks for the track that trk holds, as it is
\* before fmt.fix_clocks
trk_sector_data ==
  LET c == trk.image
      fmt == Format(c.dd)
  IN  Concat(List([i \in 1..fmt.SECTORS |->
                     create_sector(c.tracks, fmt,
                                   sector_image(c.tracks, c.sides, c.dd,
                                                c.protected, c.pat),
                                   trk.s, trk.j, i - 1)]),
             1, fmt.SECTORS)

\* the assembled track LEADIN + sector_data + LEADOUT without any correction
trk_assembled ==
  Format(trk.image.dd).LEADIN \o trk_sector_data \o Format(trk.image.dd).LEADOUT

\* the stream has its correction at every word boundary: after a byte of odd
\* index with bit 7 set comes a byte with bit 0 clear
corrected(stream) ==
  \A n \in 1..((Len(stream) - 1) \div 2) :
    Bit(At(stream, 2 * n - 1), 7) => At(stream, 2 * n) % 2 = 0

\* track is fmt.fix_clocks of the assembled track, with the correction at
\* every word boundary of a DD track
fixed_once(fmt, assembled, track) ==
  /\ track.err = ""
  /\ track = IF fmt.dd THEN DD_fix_clocks(assembled)
             ELSE [err |-> "", val |-> assembled]
  /\ fmt.dd => corrected(track.val)

\* the assembled track lacks the correction at some word boundary, the
\* emitted track has it
changed(assembled, track) ==
  /\ ~corrected(assembled)
  /\ corrected(track)
  /\ Len(track) = Len(assembled)

\* C17: for every valid DD sector image each track emitted by create_tracks
\* equals fix_clocks applied once to the fully assembled track LEADIN + 18
\* sector blocks + LEADOUT: the clock correction is present at every word
\* boundary of the emitted track, those at LEADIN and LEADOUT included, and it
\* is never applied twice.
C17_FixOnce ==
  trk.pc = "track" => fixed_once(Format(trk.image.dd), trk_assembled, trk.track)

\* a DD track whose assembled bytes lacked the correction at some boundary
\* was emitted with it
C17_Witness ==
  /\ trk.pc = "track"
  /\ trk.image.dd
  /\ trk.track.err = ""
  /\ changed(trk_assembled, trk.track.val)

\* the stream has even length and ends with GAP2, and no byte of odd index
\* with bit 7 set is its last
in_range(stream) ==
  /\ Len(stream) % 2 = 0
  /\ Slice(stream, Len(stream) - Len(DD_GAP2), Len(stream)) = DD_GAP2
  /\ ~Bit(At(stream, Len(stream) - 1), 7)
  /\ \A n \in 0..((Len(stream) \div 2) - 1) :
       Bit(At(stream, 2 * n + 1), 7) => 2 * n + 2 < Len(stream)

\* C20: DDFormat.fix_clocks writes stream[idx + 1] for every odd idx whose
\* byte has bit 7 set. For every sector image content the stream that
\* create_tracks passes to fix_clocks has even length and ends with GAP2,
\* whose last byte 0x2A has bit 7 clear, so fix_clocks accesses no index >=
\* len(stream) and create_tracks never fails with an index error.
C20_NoIndexError ==
  (trk.pc = "track" /\ trk.image.dd) =>
    /\ At(DD_GAP2, Len(DD_GAP2) - 1) = 42
    /\ in_range(trk_sector_data)
    /\ trk.track.err = ""

\* the stream has a byte of odd index with bit 7 set before a byte with bit 0
\* set, and the track built of it has all its bytes
written(stream, track) ==
  /\ \E n \in 0..((Len(stream) \div 2) - 1) :
       /\ Bit(At(stream, 2 * n + 1), 7)
       /\ At(stream, 2 * n + 2) % 2 = 1
  /\ Len(track) = Len(DD_LEADIN) + Len(stream) + Len(DD_LEADOUT)

\* fix_clocks wrote stream[idx + 1] in the sector_data of a DD track, and the
\* track was built
C20_Witness ==
  /\ trk.pc = "track"
  /\ trk.image.dd
  /\ trk.track.err = ""
  /\ written(trk_sector_data, trk.track.val)

\* the blocks of the HFE image hfe are those of the sandwich: after the header
\* and the LUT, the 49 chunks of the track at position p of side 0 alternate
\* with those of the track at position p of side 1, or with 256 zero bytes
sandwiched(p, track0, track1) ==
  \A c \in 0..48 :
    /\ hfe.val[4 + 2 * (49 * p + c) + 1] = Slice(track0, 256 * c, 256 * c + 256)
    /\ hfe.val[4 + 2 * (49 * p + c) + 2] =
         IF img_sides = 1 THEN [k \in 1..256 |-> 0]
         ELSE Slice(track1, 256 * c, 256 * c + 256)

\* entry j of the LUT of the HFE image hfe: the offset of the data of track j,
\* in units of 512 bytes
lut_entry(j) ==
  At(hfe.val[3 + (j \div 64)], 4 * (j % 64))
  + 256 * At(hfe.val[3 + (j \div 64)], 4 * (j % 64) + 1)

\* C18: for every valid sector image the bytes of create_from_disk's output
\* from offset 1024 on are 256-byte chunks alternating side 0 / side 1: chunk
\* 2k is bytes [256k, 256k + 256) of the side-0 stream and chunk 2k + 1 the
\* same window of the reversed side-1 stream, or 256 zero bytes when sides ==
\* 1. The total length is 1024 + tracks * 2 * 12544 for one and two sides and
\* both densities, with no padding between tracks, and the data of track j
\* starts at byte 512 * (0x31 * j + 2), the offset recorded in LUT entry j.
C18_Layout ==
  pc \in {"hfe", "back", "hfe2"} =>
    /\ hfe.err = ""
    /\ Len(hfe.val) = 4 + img_tracks * 2 * 49
    /\ \A b \in 1..Len(hfe.val) : Len(hfe.val[b]) = 256
    /\ \A p \in TrackIndexes(img_tracks) :
         /\ sandwiched(p,
                       create_track(img_tracks, img_fmt, join(img), 0, p).val,
                       create_track(img_tracks, img_fmt, join(img), 1,
                                    img_tracks - 1 - p).val)
         /\ lut_entry(p) = 49 * p + 2
         /\ 512 * lut_entry(p) = 256 * (4 + 2 * 49 * p)

\* tohfe of the single-sided image of 129 tracks ended in the assertion on the
\* length of the LUT and wrote no image
C18_NoImage ==
  /\ pc = "hfe"
  /\ img_tracks = OverLut
  /\ img_sides = 1
  /\ hfe.err = "AssertionError"
  /\ hfe.val = <<>>
  /\ Len(create_lut(img_tracks, FALSE)) = 4 * OverLut

\* -------------------------------------------------------- claims on crc16

\* n shifts of the 16-bit register of the bit-serial CRC-16/CCITT: the register
\* moves left by one bit, and the polynomial 0x1021 is xored in when the bit
\* shifted out is set
RECURSIVE ccitt_shift(_, _)
ccitt_shift(reg, n) ==
  IF n = 0 THEN reg
  ELSE ccitt_shift(IF reg >= 32768 THEN Xor((2 * reg) % 65536, 4129)
                   ELSE 2 * reg,
                   n - 1)

\* the bit-serial CRC-16/CCITT of a stream from the seed reg: each byte is
\* xored into the high byte of the register, which then shifts 8 times
RECURSIVE ccitt(_, _)
ccitt(reg, stream) ==
  IF stream = <<>> THEN reg
  ELSE ccitt(ccitt_shift(Xor(reg, 256 * Head(stream)), 8), Tail(stream))

\* crc16(seed, stream) is [msb, lsb] of the bit-serial CRC of stream from seed
same_crc(seed, stream) ==
  /\ crc16(seed, stream) \in (0..255) \X (0..255)
  /\ 256 * crc16(seed, stream)[1] + crc16(seed, stream)[2] = ccitt(seed, stream)

\* C19: for every 16-bit seed and every sequence of bytes, crc16(seed, stream)
\* returns [msb, lsb] of the standard CRC-16/CCITT of the stream computed
\* bit-serially (polynomial 0x1021, most significant bit first, no reflection,
\* no final XOR) from that seed, and both values are in 0..255, valid indices
\* into FM_CODES / MVM_CODES.
C19_Ccitt ==
  crc.pc = "crc" =>
    /\ same_crc(256 * crc.reg[1] + crc.reg[2], <<>>)
    /\ \A b \in CrcBytes :
         /\ same_crc(256 * crc.reg[1] + crc.reg[2], <<b>>)
         /\ same_crc(256 * crc.reg[1] + crc.reg[2], <<b, 255 - b, crc.reg[2]>>)
    /\ Len(FM_CODES) = 256
    /\ Len(MVM_CODES) = 256

\* crc16 ran from a seed with both bytes other than 0x00 and 0xFF, bit 15 set
\* and bit 7 clear
C19_Witness ==
  /\ crc.pc = "crc"
  /\ crc.reg[1] \in 128..254
  /\ crc.reg[2] \in 1..127
  /\ crc16(256 * crc.reg[1] + crc.reg[2], <<161>>)
       # crc16(65535, <<161>>)
  /\ same_crc(256 * crc.reg[1] + crc.reg[2], <<161, 254>>)

=============================================================================
